---- MODULE Spec2Model ----
(***************************************************************************)
(* State-machine model of the wine value finder backend: the session       *)
(* store, the upload/parse task, the lookup route with its wave scheduler  *)
(* and retry pass, the per-wine lookup orchestrator, the result cache, the *)
(* edit and poll routes and the value calculator.                          *)
(*                                                                         *)
(* Node runs one handler or continuation at a time: an action of the model *)
(* is everything the code does between two suspension points (an external  *)
(* call that really waits: the parser call, the price API / community      *)
(* agent calls, the fallback agent call).  A continuation that only awaits *)
(* already-settled promises (an empty pass, a wave served from the cache)  *)
(* runs in the same action.                                                *)
(***************************************************************************)
EXTENDS Integers, Sequences, FiniteSets, TLC

\* ---------------------------------------------------------------------
\* Values
\* ---------------------------------------------------------------------

\* JavaScript null in a `number | null` field (every number of the model
\* is far above it).
Null == -1000000

\* A JSON value that is not a string, stored where the code expects a
\* string (wine.name is never validated by the edit route).
NonString == "#not-a-string"

\* session.error when no error was recorded (the field is absent).
NoError == "#no-error"

\* A null verification link.
NoUrl == <<>>

\* JavaScript truthiness of a `number | null` value: null and 0 are falsy.
Truthy(x) == x # Null /\ x # 0

\* a ?? b
Coalesce(a, b) == IF a # Null THEN a ELSE b

MathMin(a, b) == IF a < b THEN a ELSE b

MathMax(a, b) == IF a > b THEN a ELSE b

\* Math.round of the rational q.num / q.den (q.den > 0): floor(x + 1/2).
MathRound(q) == (2 * q.num + q.den) \div (2 * q.den)

\* ---------------------------------------------------------------------
\* Value calculator
\* ---------------------------------------------------------------------

\* ((restaurantPrice - retailPrice) / retailPrice) * 100, kept as a rational.
CalculateMarkup(restaurantPrice, retailPrice) ==
  [num |-> (restaurantPrice - retailPrice) * 100, den |-> retailPrice]

\* Ten times the quality score (0.4 critic + 0.6 community, or the single
\* score that is present), Null when neither score is present.
QualityScore10(criticScore, communityScore) ==
  IF criticScore # Null /\ communityScore # Null
    THEN 4 * criticScore + 6 * communityScore
    ELSE IF criticScore # Null THEN 10 * criticScore
    ELSE IF communityScore # Null THEN 10 * communityScore
    ELSE Null

\* The same calculator without the guard on the retail price: null is
\* coerced to 0 by the division, so the score comes out as 0.
CalculateValueScoreNoPriceGuard(restaurantPrice, retailPriceAvg, criticScore, communityScore) ==
  LET q10 == QualityScore10(criticScore, communityScore)
      retail == IF retailPriceAvg = Null THEN 0 ELSE retailPriceAvg
  IN  IF q10 = Null THEN Null
      ELSE MathMin(100, MathMax(0,
             MathRound([num |-> q10 * retail, den |-> 10 * restaurantPrice])))

\* calculateValueScore, for a positive restaurantPrice.  The rounding is
\* that of the exact quotient, which is what the doubles give unless the
\* quotient is a tie (ValueScores below); the prices and scores of the
\* sessions of this module give none.
CalculateValueScore(restaurantPrice, retailPriceAvg, criticScore, communityScore) ==
  IF ~Truthy(retailPriceAvg) THEN Null
  ELSE LET q10 == QualityScore10(criticScore, communityScore)
       IN  IF q10 = Null THEN Null
           ELSE MathMin(100, MathMax(0,
                  MathRound([num |-> q10 * retailPriceAvg,
                             den |-> 10 * restaurantPrice])))

\* ---------------------------------------------------------------------
\* Result cache keys
\* ---------------------------------------------------------------------

\* cacheKey: `${name}|${vintage ?? 'nv'}|${currency}`, name being
\* wine.name.toLowerCase().trim(): of the names of this module, "Margaux "
\* differs from "margaux" only in case and surrounding blanks.
CacheKey(wine, currency) ==
  <<IF wine.name = "Margaux " THEN "margaux" ELSE wine.name, wine.vintage, currency>>

\* cacheKey throws a TypeError when wine.name has no toLowerCase method.
CacheKeyThrows(wine) == wine.name = NonString

\* ---------------------------------------------------------------------
\* Lookup orchestrator (lookupSingleWine)
\* ---------------------------------------------------------------------

\* A WineLookupData payload.
Payload(avg, min, critic, community, count, source) ==
  [retailPriceAvg |-> avg, retailPriceMin |-> min, criticScore |-> critic,
   communityScore |-> community, communityReviewCount |-> count,
   dataSource |-> source]

\* nullData of lookupWinesBatch: every field null, no dataSource.
NullData == Payload(Null, Null, Null, Null, Null, "undefined")

\* A WineSearcherApiResult (the fields the orchestrator reads).
ApiResult(status, avg, min, critic) ==
  [status |-> status, retailPriceAvg |-> avg, retailPriceMin |-> min,
   criticScore |-> critic]

\* A CommunityScoreResult.
CommunityResult(score, count) ==
  [communityScore |-> score, communityReviewCount |-> count]

\* A WebSearchFallbackResult.
FallbackResult(avg, min, critic, community, count) ==
  [retailPriceAvg |-> avg, retailPriceMin |-> min, criticScore |-> critic,
   communityScore |-> community, communityReviewCount |-> count]

\* One entry of Promise.allSettled.
Fulfilled(v) == [settled |-> "fulfilled", value |-> v]

Rejected(v) == [settled |-> "rejected", value |-> v]

\* communityData?.communityScore ?? null
CommunityScoreOf(comm) ==
  IF comm.settled = "fulfilled" THEN comm.value.communityScore ELSE Null

\* communityData?.communityReviewCount ?? null
CommunityCountOf(comm) ==
  IF comm.settled = "fulfilled" THEN comm.value.communityReviewCount ELSE Null

\* The branch condition without the test on the data: any success counts.
UseApiDataAnySuccess(api) ==
  api.settled = "fulfilled" /\ api.value.status = "success"

\* apiData && apiData.status === 'success' &&
\*   (apiData.retailPriceAvg !== null || apiData.criticScore !== null)
UseApiData(api) ==
  /\ api.settled = "fulfilled"
  /\ api.value.status = "success"
  /\ (api.value.retailPriceAvg # Null \/ api.value.criticScore # Null)

\* The payload of the branch "API gave us good data".  The tag compares
\* communityData?.communityScore with null: for a rejected community lookup
\* the left side is undefined, which is not null.
ResultFromApi(api, comm) ==
  Payload(api.value.retailPriceAvg, api.value.retailPriceMin,
          api.value.criticScore, CommunityScoreOf(comm), CommunityCountOf(comm),
          IF comm.settled = "rejected" \/ comm.value.communityScore # Null
            THEN "mixed" ELSE "api")

\* The fallback branch with the community fields always taken from the
\* fallback.
ResultFromFallbackOverwrite(comm, fb) ==
  Payload(fb.retailPriceAvg, fb.retailPriceMin, fb.criticScore,
          fb.communityScore, fb.communityReviewCount, "web_search")

\* The payload of the fallback branch, fb being what lookupViaWebSearch
\* returned.
ResultFromFallback(comm, fb) ==
  IF CommunityScoreOf(comm) = Null
    THEN Payload(fb.retailPriceAvg, fb.retailPriceMin, fb.criticScore,
                 fb.communityScore, fb.communityReviewCount, "web_search")
    ELSE Payload(fb.retailPriceAvg, fb.retailPriceMin, fb.criticScore,
                 CommunityScoreOf(comm), CommunityCountOf(comm), "web_search")

\* lookupSingleWine as a function of what the three sources deliver; fb is
\* what the fallback delivers if it is called.  fallbackCalls counts the
\* invocations of lookupViaWebSearch.
LookupSingleWine(api, comm, fb) ==
  IF UseApiData(api)
    THEN [data |-> ResultFromApi(api, comm), fallbackCalls |-> 0]
    ELSE [data |-> ResultFromFallback(comm, fb), fallbackCalls |-> 1]

\* ---------------------------------------------------------------------
\* State
\* ---------------------------------------------------------------------

VARIABLES
  session,      \* the SessionData object of the uploaded document
  stored,       \* TRUE when the sessions map holds the object under its id
  parse,        \* the background parse of the upload: idle, running, done
  runs,         \* the background lookup runs of the session, latest last
  lookupCache,  \* the lookupCache map: cache key -> payload
  resp,         \* the HTTP response of the last request, if the step was one
  written,      \* the values assigned to session.status in the last step
  edits,        \* the number of edit requests applied so far
  starts,       \* the number of lookup runs started so far
  probe         \* the last call of a function exercised on its own

vars == <<session, stored, parse, runs, lookupCache, resp, written, edits, starts,
          probe>>

\* At most MaxEdits edits are applied and MaxStarts lookup runs started.
MaxEdits == 2

MaxStarts == 2

\* const WAVE_SIZE = 5
WAVE_SIZE == 5

\* A wine as the upload route creates it from a parsed wine.
NewWine(name, vintage, restaurantPrice) ==
  [name |-> name, vintage |-> vintage, restaurantPrice |-> restaurantPrice,
   retailPriceAvg |-> Null, retailPriceMin |-> Null, criticScore |-> Null,
   communityScore |-> Null, communityReviewCount |-> Null,
   lookupStatus |-> "pending", wineSearcherUrl |-> NoUrl,
   cellarTrackerUrl |-> NoUrl, markupPercent |-> Null, valueScore |-> Null]

\* The session object the upload route creates.
NewSession ==
  [wines |-> <<>>, currency |-> "USD", status |-> "parsing", error |-> NoError]

\* No request was answered in this step.
NoResponse == [op |-> "none", code |-> 0]

Response(op, code) == [op |-> op, code |-> code]

\* lookupCache.set
CachePut(cache, key, data) ==
  [k \in DOMAIN cache \cup {key} |-> IF k = key THEN data ELSE cache[k]]

\* lookupCache.delete for a set of keys
CacheDelete(cache, keys) == [k \in DOMAIN cache \ keys |-> cache[k]]

\* ---------------------------------------------------------------------
\* Merge of one lookup result into a wine (runWaves, the loop body)
\* ---------------------------------------------------------------------

\* The five fields assigned from the result whatever the wine holds.
FillNullsOverwrite(wine, data) ==
  [wine EXCEPT
     !.retailPriceAvg = data.retailPriceAvg,
     !.retailPriceMin = data.retailPriceMin,
     !.criticScore = data.criticScore,
     !.communityScore = data.communityScore,
     !.communityReviewCount = data.communityReviewCount]

\* The five `wine.x = wine.x ?? data.x` assignments.
FillNulls(wine, data) ==
  [wine EXCEPT
     !.retailPriceAvg = Coalesce(wine.retailPriceAvg, data.retailPriceAvg),
     !.retailPriceMin = Coalesce(wine.retailPriceMin, data.retailPriceMin),
     !.criticScore = Coalesce(wine.criticScore, data.criticScore),
     !.communityScore = Coalesce(wine.communityScore, data.communityScore),
     !.communityReviewCount =
        Coalesce(wine.communityReviewCount, data.communityReviewCount)]

\* The status classification of runWaves.
Classify(wine) ==
  IF wine.valueScore # Null THEN "found"
  ELSE IF Truthy(wine.retailPriceAvg) \/ Truthy(wine.criticScore)
            \/ Truthy(wine.communityScore)
    THEN "partial"
    ELSE "not_found"

\* wine.name.replace throws a TypeError when the name is not a string.
MergeThrows(wine) == wine.name = NonString

\* The body of the merge loop for one wine whose name is a string.
MergeWine(wine, data) ==
  LET w1 == FillNulls(wine, data)
      w2 == [w1 EXCEPT
               !.wineSearcherUrl = <<"wine-searcher", w1.name, w1.vintage>>,
               !.cellarTrackerUrl = <<"cellartracker", w1.name, w1.vintage>>,
               !.markupPercent =
                  IF Truthy(w1.retailPriceAvg)
                    THEN MathRound(CalculateMarkup(w1.restaurantPrice,
                                                   w1.retailPriceAvg))
                    ELSE w1.markupPercent,
               !.valueScore =
                  CalculateValueScore(w1.restaurantPrice, w1.retailPriceAvg,
                                      w1.criticScore, w1.communityScore)]
  IN  [w2 EXCEPT !.lookupStatus = Classify(w2)]

\* ---------------------------------------------------------------------
\* The lookup run (router.post('/:sessionId'), the part after the response)
\* ---------------------------------------------------------------------
\* A run is a record: pc is where the task stands ("waiting" for the
\* lookups of the current wave, "complete" or "error" once it has ended;
\* "startWave", "merge" and "endPass" are passed through inside one step),
\* pass and waveIdx are the pass and the index of the current wave, list
\* holds the indices (into session.wines) of the wines of the pass, lookups
\* the state of lookupWinesBatch for the current wave.  The other fields
\* record what the run did: attempts[i] and calls[i] count the waves wine i
\* was part of and the times the sources were called for it, retry and
\* scored are the wines selected for the retry and the wines with a
\* valueScore when needsRetry was computed, skipped the wines that had no
\* valueScore and were pending then, cleared the cache keys deleted then,
\* scoredKeys the cache keys of the scored wines, attempts1 and calls1 the
\* values of attempts and calls at that moment, first the list of pass 1.

\* The indices of the wines, in list order.
Indices(wines) == [i \in 1..Len(wines) |-> i]

\* sess.wines.filter(w => w.lookupStatus === 'pending')
IsPending(wine) == wine.lookupStatus = "pending"

\* The retry filter without the test on the valueScore.
NeedsRetryAll(wine) == wine.lookupStatus # "pending"

\* w => w.valueScore === null && w.lookupStatus !== 'pending'
NeedsRetry(wine) == wine.valueScore = Null /\ wine.lookupStatus # "pending"

\* The elements of a sequence.
Range(seq) == {seq[k] : k \in DOMAIN seq}

\* The run as the route starts it: pass 1 over the pending wines.
NewRun(sess) ==
  [pc |-> "startWave", pass |-> 1, waveIdx |-> 0,
   list |-> SelectSeq(Indices(sess.wines), LAMBDA i : IsPending(sess.wines[i])),
   first |-> SelectSeq(Indices(sess.wines), LAMBDA i : IsPending(sess.wines[i])),
   lookups |-> <<>>,
   attempts |-> [i \in DOMAIN sess.wines |-> 0],
   calls |-> [i \in DOMAIN sess.wines |-> 0],
   attempts1 |-> [i \in DOMAIN sess.wines |-> 0],
   calls1 |-> [i \in DOMAIN sess.wines |-> 0],
   retry |-> {}, scored |-> {}, skipped |-> {}, cleared |-> {},
   scoredKeys |-> {}]

\* The whole list given to lookupWinesBatch as one wave.
WaveUnbounded(run) == IF run.waveIdx = 0 THEN run.list ELSE <<>>

\* waves[waveIdx]: wines.slice(i, i + WAVE_SIZE)
Wave(run) ==
  SubSeq(run.list, run.waveIdx * WAVE_SIZE + 1,
         MathMin((run.waveIdx + 1) * WAVE_SIZE, Len(run.list)))

\* One slot of lookupWinesBatch: st is "cached" (served by getCached),
\* "sources" (price API and community lookup in flight), "fallback" (web
\* search in flight) or "done"; data is the payload once there is one, comm
\* the settled community lookup while the fallback runs, key the cache key
\* the wine had when the lookup was issued.
Slot(st, data, comm, key) == [st |-> st, data |-> data, comm |-> comm, key |-> key]

NoCommunity == Fulfilled(CommunityResult(Null, Null))

\* The catch block putting the session back to parsed instead of error.
FailResetsToParsed(m, message) ==
  [m EXCEPT !.session.status = "parsed", !.session.error = message,
            !.written = Append(m.written, "parsed"),
            !.stored = TRUE, !.run.pc = "error"]

\* The catch block of the route: status error, message stored, setSession.
Fail(m, message) ==
  [m EXCEPT !.session.status = "error", !.session.error = message,
            !.written = Append(m.written, "error"),
            !.stored = TRUE, !.run.pc = "error"]

\* The end of the run without the assignment to sess.status.
CompleteWithoutStatus(m) ==
  [m EXCEPT !.stored = TRUE, !.run.pc = "complete"]

\* sess.status = 'complete'; setSession(sess)
Complete(m) ==
  [m EXCEPT !.session.status = "complete",
            !.written = Append(m.written, "complete"),
            !.stored = TRUE, !.run.pc = "complete"]

\* The head of the wave loop and the synchronous part of lookupWinesBatch:
\* the cache is consulted for every wine of the wave, then a lookup is
\* started for each wine without an entry.
StartWaveStep(m) ==
  LET run == m.run
      wave == Wave(run)
      wines == m.session.wines
      currency == m.session.currency
      keyOf(p) == CacheKey(wines[wave[p]], currency)
      hit(p) == keyOf(p) \in DOMAIN m.cache
  IN  IF run.waveIdx * WAVE_SIZE >= Len(run.list)
        THEN [m EXCEPT !.run.pc = "endPass"]
      ELSE IF \E p \in DOMAIN wave : CacheKeyThrows(wines[wave[p]])
        THEN Fail(m, "TypeError")
      ELSE [m EXCEPT
              !.run.lookups =
                 [p \in DOMAIN wave |->
                    IF hit(p)
                      THEN Slot("cached", m.cache[keyOf(p)], NoCommunity, keyOf(p))
                      ELSE Slot("sources", NullData, NoCommunity, keyOf(p))],
              !.run.attempts =
                 [i \in DOMAIN run.attempts |->
                    IF i \in Range(wave) THEN run.attempts[i] + 1
                    ELSE run.attempts[i]],
              !.run.calls =
                 [i \in DOMAIN run.calls |->
                    IF \E p \in DOMAIN wave : wave[p] = i /\ ~hit(p)
                      THEN run.calls[i] + 1 ELSE run.calls[i]],
              !.run.pc =
                 IF \A p \in DOMAIN wave : hit(p) THEN "merge" ELSE "waiting"]

\* The merge loop over the wave: the result of each slot is merged into its
\* wine, in wave order; a name that is not a string makes the link
\* generation throw after the five fields were filled, and the loop ends
\* there.
MergeLoop(wines, wave, lookups) ==
  LET throwers == {p \in DOMAIN wave : MergeThrows(wines[wave[p]])}
      merged(i) == \E p \in DOMAIN wave : wave[p] = i /\ \A t \in throwers : p < t
      thrown(i) == \E p \in throwers : wave[p] = i /\ \A t \in throwers : p <= t
      dataOf(i) == lookups[CHOOSE p \in DOMAIN wave : wave[p] = i].data
  IN  [wines |-> [i \in DOMAIN wines |->
                    IF merged(i) THEN MergeWine(wines[i], dataOf(i))
                    ELSE IF thrown(i) THEN FillNulls(wines[i], dataOf(i))
                    ELSE wines[i]],
       threw |-> throwers # {}]

\* The merge loop left out of the wave loop body.
MergeStepWithoutMerge(m) ==
  [m EXCEPT !.stored = TRUE, !.run.lookups = <<>>,
            !.run.waveIdx = m.run.waveIdx + 1, !.run.pc = "startWave"]

\* The rest of the wave loop body once lookupWinesBatch has returned: merge,
\* setSession, next wave.
MergeStep(m) ==
  LET merged == MergeLoop(m.session.wines, Wave(m.run), m.run.lookups)
      m1 == [m EXCEPT !.session.wines = merged.wines]
  IN  IF merged.threw THEN Fail(m1, "TypeError")
      ELSE [m1 EXCEPT !.stored = TRUE, !.run.lookups = <<>>,
                      !.run.waveIdx = m.run.waveIdx + 1,
                      !.run.pc = "startWave"]

\* After runWaves has returned: after pass 1 the wines to retry are
\* collected, their cache entries deleted and pass 2 started; after pass 2,
\* or when there is nothing to retry, the session is complete.  cacheKey
\* throws for a retried wine whose name is not a string: the entries of the
\* wines before it in the list are deleted by then.
EndPassStep(m) ==
  LET wines == m.session.wines
      needsRetry == SelectSeq(Indices(wines), LAMBDA i : NeedsRetry(wines[i]))
      throwers == {k \in DOMAIN needsRetry : CacheKeyThrows(wines[needsRetry[k]])}
      reached == {k \in DOMAIN needsRetry : \A t \in throwers : k < t}
      keys == {CacheKey(wines[needsRetry[k]], m.session.currency) : k \in reached}
      noted == [m EXCEPT
                  !.run.retry = Range(needsRetry),
                  !.run.scored = {i \in DOMAIN wines : wines[i].valueScore # Null},
                  !.run.skipped =
                     {i \in DOMAIN wines : wines[i].valueScore = Null
                                           /\ wines[i].lookupStatus = "pending"},
                  !.run.scoredKeys =
                     {CacheKey(wines[i], m.session.currency) :
                        i \in {j \in DOMAIN wines : wines[j].valueScore # Null}},
                  !.run.attempts1 = m.run.attempts,
                  !.run.calls1 = m.run.calls]
  IN  IF m.run.pass = 2 THEN Complete(m)
      ELSE IF needsRetry = <<>> THEN Complete(noted)
      ELSE IF throwers # {}
        THEN Fail([noted EXCEPT !.cache = CacheDelete(m.cache, keys),
                                !.run.cleared = keys],
                  "TypeError")
      ELSE [noted EXCEPT
              !.cache = CacheDelete(m.cache, keys),
              !.run.cleared = keys,
              !.run.pass = 2, !.run.list = needsRetry, !.run.waveIdx = 0,
              !.run.pc = "startWave"]

\* The task runs on until it has to wait for a lookup or has ended.  (Each
\* state n on the way is computed once and handed on as a value.)
RECURSIVE Advance(_)
Advance(m) ==
  CHOOSE end \in
    { CASE n.run.pc = "startWave" -> Advance(StartWaveStep(n))
        [] n.run.pc = "merge" -> Advance(MergeStep(n))
        [] n.run.pc = "endPass" -> Advance(EndPassStep(n))
        [] OTHER -> n : n \in {m} } : TRUE

\* ---------------------------------------------------------------------
\* Inputs
\* ---------------------------------------------------------------------

\* What parseWineList may resolve to: a currency and the parsed wines (an
\* empty list, one wine, the same wine by the bottle and by the glass).
ParseResults ==
  { [currency |-> "USD", wines |-> <<>>],
    [currency |-> "GBP", wines |-> <<NewWine("margaux", 2018, 60)>>],
    [currency |-> "USD",
     wines |-> <<NewWine("margaux", 2018, 60), NewWine("Margaux ", 2018, 15)>>] }

\* The indices an edit request may name (1-based here: req.params.index + 1).
EditIndices == 1..2

\* What the price API call may settle to.
ApiOutcomes ==
  { Fulfilled(ApiResult("success", 30, 25, 90)),
    Fulfilled(ApiResult("no_match", Null, Null, Null)) }

\* What the community lookup may settle to.
CommunityOutcomes ==
  { Fulfilled(CommunityResult(Null, Null)),
    Fulfilled(CommunityResult(88, 12)) }

\* What the web search fallback may return.
FallbackOutcomes ==
  { FallbackResult(Null, Null, Null, Null, Null),
    FallbackResult(0, 0, Null, Null, Null) }

\* ---------------------------------------------------------------------
\* Initial state: the server has started, nothing was uploaded.
\* ---------------------------------------------------------------------

NoProbe == [fn |-> "none"]

Init ==
  /\ session = NewSession
  /\ stored = FALSE
  /\ parse = "idle"
  /\ runs = <<>>
  /\ lookupCache = <<>>
  /\ resp = NoResponse
  /\ written = <<>>
  /\ edits = 0
  /\ starts = 0
  /\ probe = NoProbe

\* ---------------------------------------------------------------------
\* Upload route
\* ---------------------------------------------------------------------

\* router.post('/') up to the first await: without a file 400; otherwise the
\* session is created in status parsing, stored, and the parse is started.
Upload(hasFile) ==
  /\ parse = "idle"
  /\ UNCHANGED <<runs, lookupCache, edits, starts, probe>>
  /\ IF ~hasFile
       THEN /\ resp' = Response("upload", 400)
            /\ written' = <<>>
            /\ UNCHANGED <<session, stored, parse>>
       ELSE /\ session' = NewSession
            /\ stored' = TRUE
            /\ parse' = "running"
            /\ written' = <<"parsing">>
            /\ resp' = Response("upload", 200)

\* parseWineList resolved: the stored session, if any, gets the wines, the
\* currency and status parsed.
ParseDone(result) ==
  /\ parse = "running"
  /\ parse' = "done"
  /\ session' = IF stored
                  THEN [session EXCEPT !.wines = result.wines,
                                       !.currency = result.currency,
                                       !.status = "parsed"]
                  ELSE session
  /\ written' = IF stored THEN <<"parsed">> ELSE <<>>
  /\ resp' = NoResponse
  /\ UNCHANGED <<stored, runs, lookupCache, edits, starts, probe>>

\* parseWineList threw: the stored session, if any, gets status error.
ParseFailed ==
  /\ parse = "running"
  /\ parse' = "done"
  /\ session' = IF stored
                  THEN [session EXCEPT !.status = "error", !.error = "parse error"]
                  ELSE session
  /\ written' = IF stored THEN <<"error">> ELSE <<>>
  /\ resp' = NoResponse
  /\ UNCHANGED <<stored, runs, lookupCache, edits, starts, probe>>

\* ---------------------------------------------------------------------
\* Lookup route
\* ---------------------------------------------------------------------

\* The guard that never reports a conflict.
LookupInProgressNever(sess) == FALSE

\* session.status === 'looking_up'
LookupInProgress(sess) == sess.status = "looking_up"

\* A run that has not ended.
Active(run) == run.pc = "waiting"

\* The state a run works on.
Machine(run) ==
  [session |-> session, stored |-> stored, cache |-> lookupCache, run |-> run,
   written |-> <<>>]

\* router.post('/:sessionId'): 404 for an unknown session, 409 while a
\* lookup is in progress; otherwise status looking_up, the response, and
\* the run up to its first wait.
StartLookup ==
  /\ UNCHANGED <<parse, edits, probe>>
  /\ IF ~stored
       THEN /\ resp' = Response("lookup", 404)
            /\ written' = <<>>
            /\ UNCHANGED <<session, stored, runs, lookupCache, starts>>
     ELSE IF LookupInProgress(session)
       THEN /\ resp' = Response("lookup", 409)
            /\ written' = <<>>
            /\ UNCHANGED <<session, stored, runs, lookupCache, starts>>
     ELSE LET started == [session EXCEPT !.status = "looking_up"]
              m == Advance([session |-> started, stored |-> TRUE,
                            cache |-> lookupCache, run |-> NewRun(started),
                            written |-> <<"looking_up">>])
          IN  /\ starts < MaxStarts
              /\ starts' = starts + 1
              /\ session' = m.session
              /\ stored' = m.stored
              /\ lookupCache' = m.cache
              /\ written' = m.written
              /\ runs' = Append(SelectSeq(runs, Active), m.run)
              /\ resp' = Response("lookup", 200)

\* The end of one lookup of lookupWinesBatch: setCache under the wine's
\* present key (a throwing cacheKey is caught and turns the result into
\* nullData), the slot is done, and when it was the last slot of the wave
\* the batch returns and the run goes on.
FinishLookup(m, p, data) ==
  LET wine == m.session.wines[Wave(m.run)[p]]
      key == CacheKey(wine, m.session.currency)
      kept == IF CacheKeyThrows(wine) THEN NullData ELSE data
      slots == [m.run.lookups EXCEPT ![p].st = "done", ![p].data = kept]
      m1 == [m EXCEPT
               !.cache = IF CacheKeyThrows(wine) THEN m.cache
                         ELSE CachePut(m.cache, key, data),
               !.run.lookups = slots,
               !.run.pc = IF \A q \in DOMAIN slots : slots[q].st \in {"done", "cached"}
                            THEN "merge" ELSE "waiting"]
  IN  Advance(m1)

\* lookupViaWebSearch threw before its request (the name of the wine is not
\* a string): the catch of lookupWinesBatch returns nullData, nothing is
\* cached.
FailLookup(m, p) ==
  LET slots == [m.run.lookups EXCEPT ![p].st = "done", ![p].data = NullData]
  IN  Advance([m EXCEPT
                 !.run.lookups = slots,
                 !.run.pc = IF \A q \in DOMAIN slots : slots[q].st \in {"done", "cached"}
                              THEN "merge" ELSE "waiting"])

\* The run r takes the machine state m.
RunTakes(r, m) ==
  \E n \in {m} :
    /\ session' = n.session
    /\ stored' = n.stored
    /\ lookupCache' = n.cache
    /\ runs' = [runs EXCEPT ![r] = n.run]
    /\ written' = n.written
    /\ resp' = NoResponse
    /\ UNCHANGED <<parse, edits, starts, probe>>

\* lookupSingleWine after Promise.allSettled: the price API settled to api,
\* the community lookup to comm.  With usable API data the lookup ends;
\* otherwise the fallback is called.
SourcesDone(r, p, api, comm) ==
  /\ r \in DOMAIN runs
  /\ Active(runs[r])
  /\ p \in DOMAIN runs[r].lookups
  /\ runs[r].lookups[p].st = "sources"
  /\ LET m == Machine(runs[r])
         wine == session.wines[Wave(runs[r])[p]]
     IN  IF UseApiData(api)
           THEN RunTakes(r, FinishLookup(m, p, ResultFromApi(api, comm)))
         ELSE IF wine.name = NonString
           THEN RunTakes(r, FailLookup(m, p))
         ELSE RunTakes(r, [m EXCEPT !.run.lookups[p].st = "fallback",
                                     !.run.lookups[p].comm = comm])

\* lookupViaWebSearch returned fb.
FallbackDone(r, p, fb) ==
  /\ r \in DOMAIN runs
  /\ Active(runs[r])
  /\ p \in DOMAIN runs[r].lookups
  /\ runs[r].lookups[p].st = "fallback"
  /\ RunTakes(r, FinishLookup(Machine(runs[r]), p,
                              ResultFromFallback(runs[r].lookups[p].comm, fb)))

\* ---------------------------------------------------------------------
\* Wines route
\* ---------------------------------------------------------------------

\* router.get('/:sessionId')
Poll ==
  /\ resp' = Response("get", IF stored THEN 200 ELSE 404)
  /\ written' = <<>>
  /\ UNCHANGED <<session, stored, parse, runs, lookupCache, edits, starts, probe>>

\* A field of the request body, or the present value when it is undefined.
BodyField(body, field, present) ==
  IF field \in DOMAIN body THEN body[field] ELSE present

\* The edit keeping the markup of the wine.
EditedWineKeepsMarkup(wine, body) ==
  [NewWine(BodyField(body, "name", wine.name),
           BodyField(body, "vintage", wine.vintage),
           BodyField(body, "restaurantPrice", wine.restaurantPrice))
     EXCEPT !.markupPercent = wine.markupPercent]

\* The wine after an edit: the supplied identity fields, and the lookup
\* data reset.
EditedWine(wine, body) ==
  NewWine(BodyField(body, "name", wine.name),
          BodyField(body, "vintage", wine.vintage),
          BodyField(body, "restaurantPrice", wine.restaurantPrice))

\* router.put('/:sessionId/:index')
Edit(i, body) ==
  /\ UNCHANGED <<parse, runs, lookupCache, starts, probe>>
  /\ written' = <<>>
  /\ IF ~stored
       THEN /\ resp' = Response("put", 404)
            /\ UNCHANGED <<session, stored, edits>>
     ELSE IF i > Len(session.wines)
       THEN /\ resp' = Response("put", 400)
            /\ UNCHANGED <<session, stored, edits>>
     ELSE /\ edits < MaxEdits
          /\ edits' = edits + 1
          /\ session' = [session EXCEPT !.wines[i] = EditedWine(session.wines[i], body)]
          /\ stored' = TRUE
          /\ resp' = Response("put", 200)

\* ---------------------------------------------------------------------
\* Specification
\* ---------------------------------------------------------------------

Next ==
  \/ \E hasFile \in BOOLEAN : Upload(hasFile)
  \/ \E result \in ParseResults : ParseDone(result)
  \/ ParseFailed
  \/ StartLookup
  \/ \E r \in DOMAIN runs, p \in 1..WAVE_SIZE, api \in ApiOutcomes,
        comm \in CommunityOutcomes : SourcesDone(r, p, api, comm)
  \/ \E r \in DOMAIN runs, p \in 1..WAVE_SIZE, fb \in FallbackOutcomes :
        FallbackDone(r, p, fb)
  \/ Poll
  \/ \E i \in EditIndices, body \in {[name |-> "petrus"], [name |-> NonString]} :
       Edit(i, body)

Spec == Init /\ [][Next]_vars

\* ---------------------------------------------------------------------
\* The orchestrator on its own
\* ---------------------------------------------------------------------

\* One call of lookupSingleWine with the given source outcomes.
CallLookupSingleWine(api, comm, fb) ==
  /\ probe' = [fn |-> "lookupSingleWine", api |-> api, comm |-> comm,
               fb |-> fb, out |-> LookupSingleWine(api, comm, fb)]
  /\ UNCHANGED <<session, stored, parse, runs, lookupCache, resp, written,
                 edits, starts>>

\* The price API call settles to a status without data, to success with or
\* without data, or to a rejected promise; the community lookup settles to
\* a result or is rejected; the web search fallback returns a payload.
NextOrch ==
  \E api \in {Fulfilled(ApiResult(st, Null, Null, Null)) :
                st \in {"no_match", "ambiguous", "rate_limited", "error"}}
              \cup {Fulfilled(ApiResult("success", avg, avg, critic)) :
                      avg \in {Null, 0, 30}, critic \in {Null, 90}}
              \cup {Rejected(ApiResult("error", Null, Null, Null))},
     comm \in {Fulfilled(CommunityResult(c[1], c[2])) :
                 c \in {<<Null, Null>>, <<88, 12>>, <<Null, 3>>, <<0, 1>>}}
               \cup {Rejected(CommunityResult(Null, Null))},
     fb \in {FallbackResult(avg, avg, critic, community,
                            IF community = Null THEN Null ELSE 7) :
               avg \in {Null, 28}, critic \in {Null, 85}, community \in {Null, 80}} :
    CallLookupSingleWine(api, comm, fb)

SpecOrch == Init /\ [][NextOrch]_vars

\* ---------------------------------------------------------------------
\* The batch lookup on its own (lookupWinesBatch)
\* ---------------------------------------------------------------------
\* probe holds one call: cached[i] is what getCached returned for wine i,
\* settled[i] how the lookup of an uncached wine i ended, returned whether
\* the batch has returned, results what it returned.

\* At most MaxBatch wines are passed to a batch.
MaxBatch == 3

\* Payloads a cache entry or a lookup may hold.
BatchPayloads ==
  { Payload(30, 25, 90, Null, Null, "api"),
    Payload(28, 28, Null, 80, 7, "web_search") }

\* getCached returned null / an entry's data.
Miss == [hit |-> FALSE]

Hit(data) == [hit |-> TRUE, data |-> data]

\* lookupSingleWine and setCache returned.  (One of them threw:
\* [settled |-> TRUE, threw |-> TRUE]; the lookup is still running:
\* [settled |-> FALSE].)
Returned(data) == [settled |-> TRUE, threw |-> FALSE, data |-> data]

\* A slot of the results array that was never assigned.
NoResult == [assigned |-> FALSE]

\* uncachedIndices
UncachedIndices(cached) ==
  SelectSeq(Indices(cached), LAMBDA i : ~cached[i].hit)

\* What the promise of one uncached wine resolves to: the try block's
\* { origIdx, data } or the catch block's { origIdx, data: nullData }.
BatchEntry(origIdx, outcome) ==
  [origIdx |-> origIdx,
   data |-> IF outcome.threw THEN NullData ELSE outcome.data]

\* The results array filled by position in lookupResults instead of origIdx.
AssembleResultsByPosition(cached, lookupResults) ==
  [i \in DOMAIN cached |->
     IF i \in DOMAIN lookupResults THEN lookupResults[i].data
     ELSE IF cached[i].hit THEN cached[i].data
     ELSE NoResult]

\* The results array: the cached payloads, then results[origIdx] = data for
\* every entry of lookupResults.
AssembleResults(cached, lookupResults) ==
  [i \in DOMAIN cached |->
     IF \E k \in DOMAIN lookupResults : lookupResults[k].origIdx = i
       THEN lookupResults[CHOOSE k \in DOMAIN lookupResults :
                            lookupResults[k].origIdx = i].data
     ELSE IF cached[i].hit THEN cached[i].data
     ELSE NoResult]

\* The batch of the call once every lookup has settled (Promise.all keeps
\* the order of uncachedIndices).
BatchReturn(cached, settled) ==
  LET uncached == UncachedIndices(cached)
  IN  AssembleResults(cached,
        [k \in DOMAIN uncached |-> BatchEntry(uncached[k], settled[uncached[k]])])

\* lookupWinesBatch up to its first await: with every wine cached it
\* returns at once.
CallLookupWinesBatch(cached) ==
  /\ probe.fn = "lookupWinesBatch" => probe.returned
  /\ probe' = [fn |-> "lookupWinesBatch", cached |-> cached,
               settled |-> [i \in DOMAIN cached |-> [settled |-> FALSE]],
               returned |-> UncachedIndices(cached) = <<>>,
               results |-> IF UncachedIndices(cached) = <<>>
                             THEN [i \in DOMAIN cached |-> cached[i].data]
                             ELSE <<>>]
  /\ UNCHANGED <<session, stored, parse, runs, lookupCache, resp, written,
                 edits, starts>>

\* The lookup of the uncached wine i ends; the last one makes the batch
\* return.
BatchLookupSettles(i, outcome) ==
  /\ probe.fn = "lookupWinesBatch"
  /\ ~probe.returned
  /\ i \in DOMAIN probe.cached
  /\ ~probe.cached[i].hit
  /\ ~probe.settled[i].settled
  /\ LET settled == [probe.settled EXCEPT ![i] = outcome]
         done == \A j \in DOMAIN settled : probe.cached[j].hit \/ settled[j].settled
     IN  probe' = [probe EXCEPT
                     !.settled = settled,
                     !.returned = done,
                     !.results = IF done THEN BatchReturn(probe.cached, settled)
                                 ELSE <<>>]
  /\ UNCHANGED <<session, stored, parse, runs, lookupCache, resp, written,
                 edits, starts>>

\* The batches of up to MaxBatch wines, each cached or not; the lookup of
\* an uncached wine returns, or it or setCache throws.
NextBatch ==
  \/ \E n \in 1..MaxBatch :
       \E cached \in [1..n -> {Miss} \cup {Hit(d) : d \in BatchPayloads}] :
         CallLookupWinesBatch(cached)
  \/ \E i \in 1..MaxBatch,
        outcome \in {[settled |-> TRUE, threw |-> TRUE]}
                      \cup {Returned(d) : d \in BatchPayloads} :
        BatchLookupSettles(i, outcome)

SpecBatch == Init /\ [][NextBatch]_vars

\* A lookup in flight returns: the external calls of lookupSingleWine are
\* bounded (the price API request is aborted after five seconds, the
\* pause_turn loops of the community lookup and of the fallback are
\* counted), so each call settles provided the remote call returns.
LookupReturns ==
  \/ \E r \in DOMAIN runs, p \in 1..WAVE_SIZE, api \in ApiOutcomes,
        comm \in CommunityOutcomes : SourcesDone(r, p, api, comm)
  \/ \E r \in DOMAIN runs, p \in 1..WAVE_SIZE, fb \in FallbackOutcomes :
        FallbackDone(r, p, fb)

\* The requests and completions that move a lookup session: the upload and
\* its parse, lookup starts, the returns of the lookups, and an edit that
\* makes the name of the first wine a non-string, by which a run can fail.
NextLive ==
  \/ Upload(TRUE)
  \/ \E result \in ParseResults : ParseDone(result)
  \/ ParseFailed
  \/ StartLookup
  \/ LookupReturns
  \/ Edit(1, [name |-> NonString])

\* The program with every lookup in flight eventually returning.
SpecLive == Init /\ [][NextLive]_vars /\ WF_vars(LookupReturns)

\* ---------------------------------------------------------------------
\* A document of more than one wave, looked up without edits
\* ---------------------------------------------------------------------

\* A parsed list of seven wines: two waves, the sixth wine being the first
\* one again under another spelling, so that the second wave finds one wine
\* in the cache and looks the other one up.
SevenWines ==
  [currency |-> "EUR",
   wines |-> <<NewWine("margaux", 2018, 60), NewWine("latour", 2015, 90),
               NewWine("lafite", 2016, 95), NewWine("palmer", 2017, 70),
               NewWine("pavie", 2019, 80), NewWine("Margaux ", 2018, 15),
               NewWine("petrus", 2014, 99)>>]

\* The price API delivers usable data or no match; the community lookup and
\* the fallback find nothing.
NextWaves ==
  \/ \E hasFile \in BOOLEAN : Upload(hasFile)
  \/ \E result \in ParseResults \cup {SevenWines} : ParseDone(result)
  \/ ParseFailed
  \/ StartLookup
  \/ \E r \in DOMAIN runs, p \in 1..WAVE_SIZE, api \in ApiOutcomes,
        comm \in {Fulfilled(CommunityResult(Null, Null))} :
        SourcesDone(r, p, api, comm)
  \/ \E r \in DOMAIN runs, p \in 1..WAVE_SIZE,
        fb \in {FallbackResult(Null, Null, Null, Null, Null)} :
        FallbackDone(r, p, fb)
  \/ Poll

SpecWaves == Init /\ [][NextWaves]_vars

\* ---------------------------------------------------------------------
\* The daily quota of the price API (wine-searcher-api.ts)
\* ---------------------------------------------------------------------
\* The module state is kept in probe: dailyCallCount and dailyResetDate as
\* in the code, today the local day of the clock (days are numbered, the
\* clock only advances), hasKey whether an API key is configured.  sent
\* counts the requests sent to the API on the day today, dropped the count
\* that the latest restart discarded; result is what the latest call of
\* lookupViaWineSearcherApi returned without waiting, or Requested when it
\* sent its request; lookup is what lookupSingleWine made of a result
\* returned without waiting.

\* The clock is followed over MaxDays local days.
MaxDays == 2

DAILY_LIMIT == 95

\* The call has sent its request and waits for the response.
Requested == [status |-> "requested"]

\* lookupSingleWine waits for the response of the price API.
PendingLookup == [pending |-> TRUE]

\* The gate refusing only above the limit.
CheckAndIncrementDailyLimitAbove(q) ==
  LET count == IF q.today # q.dailyResetDate THEN 0 ELSE q.dailyCallCount
  IN  IF count > DAILY_LIMIT
        THEN [ok |-> FALSE, dailyCallCount |-> count, dailyResetDate |-> q.today]
        ELSE [ok |-> TRUE, dailyCallCount |-> count + 1, dailyResetDate |-> q.today]

\* checkAndIncrementDailyLimit: the count restarts when the day differs from
\* dailyResetDate; at the limit the call is refused, below it counted.
CheckAndIncrementDailyLimit(q) ==
  LET count == IF q.today # q.dailyResetDate THEN 0 ELSE q.dailyCallCount
  IN  IF count >= DAILY_LIMIT
        THEN [ok |-> FALSE, dailyCallCount |-> count, dailyResetDate |-> q.today]
        ELSE [ok |-> TRUE, dailyCallCount |-> count + 1, dailyResetDate |-> q.today]

\* getRemainingApiCalls
GetRemainingApiCalls(q) ==
  IF q.today # q.dailyResetDate THEN DAILY_LIMIT
  ELSE MathMax(0, DAILY_LIMIT - q.dailyCallCount)

\* The price API call sending its request whatever the gate says.
LookupViaWineSearcherApiUngated(q) ==
  LET gate == CheckAndIncrementDailyLimit(q)
  IN  IF ~q.hasKey
        THEN [q EXCEPT !.result = ApiResult("error", Null, Null, Null)]
        ELSE [q EXCEPT !.dailyCallCount = gate.dailyCallCount,
                       !.dailyResetDate = gate.dailyResetDate,
                       !.dropped = IF q.today # q.dailyResetDate
                                     THEN q.dailyCallCount ELSE q.dropped,
                       !.sent = q.sent + 1, !.result = Requested]

\* lookupViaWineSearcherApi up to its request: without a key status error;
\* refused by the gate status rate_limited; otherwise the request is sent.
LookupViaWineSearcherApi(q) ==
  LET gate == CheckAndIncrementDailyLimit(q)
      gated == [q EXCEPT !.dailyCallCount = gate.dailyCallCount,
                         !.dailyResetDate = gate.dailyResetDate,
                         !.dropped = IF q.today # q.dailyResetDate
                                       THEN q.dailyCallCount ELSE q.dropped]
  IN  IF ~q.hasKey
        THEN [q EXCEPT !.result = ApiResult("error", Null, Null, Null)]
      ELSE IF ~gate.ok
        THEN [gated EXCEPT !.result = ApiResult("rate_limited", Null, Null, Null)]
      ELSE [gated EXCEPT !.sent = q.sent + 1, !.result = Requested]

\* The server starts with or without an API key.
LoadPriceApi(hasKey) ==
  /\ probe = NoProbe
  /\ probe' =
       [fn |-> "lookupViaWineSearcherApi", hasKey |-> hasKey,
        dailyCallCount |-> 0, dailyResetDate |-> 1, today |-> 1,
        sent |-> 0, dropped |-> 0, result |-> Requested, lookup |-> PendingLookup]
  /\ UNCHANGED <<session, stored, parse, runs, lookupCache, resp, written,
                 edits, starts>>

\* lookupSingleWine of some wine of some session, up to the point where it
\* waits for the price API or, the API having answered at once, has called
\* the fallback, which returns fb; comm is what the community lookup
\* settles to.
LookupWithQuota(comm, fb) ==
  /\ probe # NoProbe
  /\ probe.fn = "lookupViaWineSearcherApi"
  /\ LET q == LookupViaWineSearcherApi(probe)
     IN  probe' = [q EXCEPT
                     !.lookup = IF q.result = Requested THEN PendingLookup
                                ELSE LookupSingleWine(Fulfilled(q.result), comm, fb)]
  /\ UNCHANGED <<session, stored, parse, runs, lookupCache, resp, written,
                 edits, starts>>

\* Midnight passes.
NextDay ==
  /\ probe # NoProbe
  /\ probe.fn = "lookupViaWineSearcherApi"
  /\ probe.today < MaxDays
  /\ probe' = [probe EXCEPT !.today = probe.today + 1, !.sent = 0]
  /\ UNCHANGED <<session, stored, parse, runs, lookupCache, resp, written,
                 edits, starts>>

NextQuota ==
  \/ \E hasKey \in BOOLEAN : LoadPriceApi(hasKey)
  \/ \E comm \in CommunityOutcomes, fb \in FallbackOutcomes : LookupWithQuota(comm, fb)
  \/ NextDay

SpecQuota == Init /\ [][NextQuota]_vars

\* ---------------------------------------------------------------------
\* The result cache with its clock (wine-lookup.ts)
\* ---------------------------------------------------------------------
\* The cache is kept in probe: cache maps a key to { data, ts }, now is
\* Date.now() in milliseconds since the server started, ticks the number of
\* times the clock was advanced; op, key and returned describe the latest
\* call; latest records for each key the payload and time of the latest
\* setCache and whether clearWineCache was called since.

\* The clock is advanced at most MaxTicks times.
MaxTicks == 3

CACHE_TTL == 24 * 60 * 60 * 1000

\* The wines and currencies the cache functions are called with: the same
\* wine in two spellings.
CacheWines == { NewWine("margaux", 2018, 60), NewWine("Margaux ", 2018, 15) }

CacheCurrencies == { "USD", "GBP" }

\* getCached with an entry still served at the age of CACHE_TTL.
GetCachedInclusive(cache, key, now) ==
  IF key \in DOMAIN cache /\ now - cache[key].ts <= CACHE_TTL
    THEN [cache |-> cache, returned |-> Hit(cache[key].data)]
    ELSE [cache |-> CacheDelete(cache, {key}), returned |-> Miss]

\* getCached: the entry's data while it is younger than CACHE_TTL;
\* otherwise the entry, if any, is deleted and null returned.
GetCached(cache, key, now) ==
  IF key \in DOMAIN cache /\ now - cache[key].ts < CACHE_TTL
    THEN [cache |-> cache, returned |-> Hit(cache[key].data)]
    ELSE [cache |-> CacheDelete(cache, {key}), returned |-> Miss]

\* setCache
SetCache(cache, key, data, now) == CachePut(cache, key, [data |-> data, ts |-> now])

\* clearWineCache
ClearWineCache(cache, key) == CacheDelete(cache, {key})

CacheCalled == probe # NoProbe /\ probe.fn = "lookupCache"

OnlyProbeChanges ==
  UNCHANGED <<session, stored, parse, runs, lookupCache, resp, written, edits, starts>>

StartCache ==
  /\ probe = NoProbe
  /\ probe' =
       [fn |-> "lookupCache", cache |-> <<>>, now |-> 0, ticks |-> 0,
        op |-> "start", key |-> <<>>, returned |-> Miss, latest |-> <<>>]
  /\ OnlyProbeChanges

CallSetCache(wine, currency, data) ==
  /\ CacheCalled
  /\ LET key == CacheKey(wine, currency)
     IN  probe' = [probe EXCEPT
                     !.cache = SetCache(probe.cache, key, data, probe.now),
                     !.op = "set", !.key = key, !.returned = Miss,
                     !.latest = CachePut(probe.latest, key,
                                         [data |-> data, ts |-> probe.now,
                                          cleared |-> FALSE])]
  /\ OnlyProbeChanges

CallGetCached(wine, currency) ==
  /\ CacheCalled
  /\ LET key == CacheKey(wine, currency)
         got == GetCached(probe.cache, key, probe.now)
     IN  probe' = [probe EXCEPT !.cache = got.cache, !.op = "get", !.key = key,
                                !.returned = got.returned]
  /\ OnlyProbeChanges

CallClearWineCache(wine, currency) ==
  /\ CacheCalled
  /\ LET key == CacheKey(wine, currency)
     IN  probe' = [probe EXCEPT
                     !.cache = ClearWineCache(probe.cache, key),
                     !.op = "clear", !.key = key, !.returned = Miss,
                     !.latest = IF key \in DOMAIN probe.latest
                                  THEN [probe.latest EXCEPT ![key].cleared = TRUE]
                                  ELSE probe.latest]
  /\ OnlyProbeChanges

Tick(d) ==
  /\ CacheCalled
  /\ probe.ticks < MaxTicks
  /\ probe' = [probe EXCEPT !.now = probe.now + d, !.ticks = probe.ticks + 1,
                            !.op = "tick", !.returned = Miss]
  /\ OnlyProbeChanges

\* The clock advances by a millisecond or by a millisecond less than the
\* time to live.
NextCache ==
  \/ StartCache
  \/ \E wine \in CacheWines, currency \in CacheCurrencies, data \in BatchPayloads :
        CallSetCache(wine, currency, data)
  \/ \E wine \in CacheWines, currency \in CacheCurrencies : CallGetCached(wine, currency)
  \/ \E wine \in CacheWines, currency \in CacheCurrencies :
        CallClearWineCache(wine, currency)
  \/ \E d \in {1, CACHE_TTL - 1} : Tick(d)

SpecCache == Init /\ [][NextCache]_vars

\* ---------------------------------------------------------------------
\* The response parser of the price API (wine-searcher-api.ts)
\* ---------------------------------------------------------------------
\* A response body is a record: status is the status code found under one
\* of the recognised names (Null when there is none), nested whether there
\* is a value under wines, wine or List, list that value (a sequence of
\* wine objects), own the recognised price and score fields of the body
\* itself.  A field value
\* is absent, a text parseFloat reads as a number (in tenths), or a text it
\* reads as NaN.

AbsentField == [kind |-> "absent"]

NumberField(tenths) == [kind |-> "number", tenths |-> tenths]

TextField == [kind |-> "text"]

\* The recognised fields of a wine object.
WineObject(avg, min, score) == [priceAverage |-> avg, priceMin |-> min, score |-> score]

\* The bodies the price API may answer with.  The status codes are none,
\* 0, the codes the parser names, and one it does not name.
ResponseBodies ==
  LET codes == {Null, 0, 1, 9, 8, 5, 6, 7, 2}
      wines == {WineObject(avg, min, score) :
                  avg \in {AbsentField, NumberField(304), TextField},
                  min \in {AbsentField, NumberField(250)},
                  score \in {AbsentField, NumberField(905), TextField}}
  IN  {[status |-> code, nested |-> FALSE, list |-> <<>>, own |-> w] :
         code \in codes, w \in wines}
      \cup {[status |-> code, nested |-> TRUE, list |-> l,
              own |-> WineObject(AbsentField, AbsentField, AbsentField)] :
              code \in codes, l \in {<<>>} \cup {<<w>> : w \in wines}}

\* isNaN(x) ? null : Math.round(x), x being parseFloat(field ?? '').
RoundedOrNull(field) ==
  IF field.kind = "number" THEN MathRound([num |-> field.tenths, den |-> 10])
  ELSE Null

\* parseApiResponse
ParseApiResponse(body) ==
  IF body.status \in {1, 9} THEN ApiResult("no_match", Null, Null, Null)
  ELSE IF body.status = 8 THEN ApiResult("ambiguous", Null, Null, Null)
  ELSE IF body.status \in {5, 6, 7} THEN ApiResult("rate_limited", Null, Null, Null)
  ELSE IF body.status # 0 /\ body.status # Null
    THEN ApiResult("error", Null, Null, Null)
  ELSE IF body.nested /\ body.list = <<>>
    THEN ApiResult("no_match", Null, Null, Null)
  ELSE LET wine == IF body.nested THEN body.list[1] ELSE body.own
       IN  ApiResult("success", RoundedOrNull(wine.priceAverage),
                     RoundedOrNull(wine.priceMin), RoundedOrNull(wine.score))

\* The price API answered with the body.
CallParseApiResponse(body) ==
  /\ probe' = [fn |-> "parseApiResponse", body |-> body,
               out |-> ParseApiResponse(body)]
  /\ OnlyProbeChanges

NextApi == \E body \in ResponseBodies : CallParseApiResponse(body)

SpecApi == Init /\ [][NextApi]_vars

\* ---------------------------------------------------------------------
\* The web search fallback (lookupViaWebSearch)
\* ---------------------------------------------------------------------
\* A JSON value found under one of the five field names of the object the
\* agent wrote: absent (the property is missing), null, a number, or a
\* value of another type (a text such as "about 30").

JsonAbsent == [kind |-> "absent", value |-> Null]

JsonNull == [kind |-> "null", value |-> Null]

JsonNumber(n) == [kind |-> "number", value |-> n]

JsonText == [kind |-> "text", value |-> Null]

\* The object JSON.parse returns for a text block.
JsonObject(avg, min, critic, community, count) ==
  [retailPriceAvg |-> avg, retailPriceMin |-> min, criticScore |-> critic,
   communityScore |-> community, communityReviewCount |-> count]

\* NULL_RESULT of the fallback.
WebSearchNullResult == JsonObject(JsonNull, JsonNull, JsonNull, JsonNull, JsonNull)

\* A text block of the agent's last message: its braces hold a text
\* JSON.parse accepts (parses, obj the object), or it has no braces or
\* JSON.parse throws on them ([parses |-> FALSE]).
JsonBlock(obj) == [parses |-> TRUE, obj |-> obj]

\* What the agent does: the request throws (an API error, the five minute
\* timeout), or it answers with a message of text blocks (none, one that
\* does not parse, one that does, or two).
AgentOutcomes ==
  LET objects == {JsonObject(avg, min, critic, community, count) :
                    avg \in {JsonAbsent, JsonNull, JsonNumber(30), JsonText},
                    min \in {JsonAbsent, JsonNumber(25)},
                    critic \in {JsonAbsent, JsonNull, JsonNumber(90), JsonText},
                    community \in {JsonNull, JsonNumber(88), JsonText},
                    count \in {JsonAbsent, JsonNumber(12)}}
      noJson == [parses |-> FALSE]
  IN  {[throws |-> TRUE, blocks |-> <<>>]}
      \cup {[throws |-> FALSE, blocks |-> blocks] :
              blocks \in {<<>>, <<noJson>>}
                \cup {<<JsonBlock(obj)>> : obj \in objects}
                \cup {<<JsonBlock(obj), noJson>> : obj \in objects}
                \cup {<<JsonBlock(WebSearchNullResult), JsonBlock(obj)>> :
                        obj \in objects}}

\* The loop over the text blocks taken first block first.
FirstParsedBlock(blocks) ==
  LET parsed == {i \in DOMAIN blocks : blocks[i].parses}
  IN  IF parsed = {} THEN WebSearchNullResult
      ELSE blocks[CHOOSE i \in parsed : \A j \in parsed : i <= j].obj

\* The loop over the text blocks, last block first: the first block that
\* parses is returned as JSON.parse delivers it.
LastParsedBlock(blocks) ==
  LET parsed == {i \in DOMAIN blocks : blocks[i].parses}
  IN  IF parsed = {} THEN WebSearchNullResult
      ELSE blocks[CHOOSE i \in parsed : \A j \in parsed : j <= i].obj

\* lookupViaWebSearch: the promise is rejected, or fulfilled with a payload.
\* expandProducerName and buildSearchName run before the try block and
\* call split and replace on the producer and the name.
LookupViaWebSearch(wine, agent) ==
  IF wine.name = NonString \/ wine.producer = NonString THEN [rejected |-> TRUE]
  ELSE IF agent.throws THEN [rejected |-> FALSE, payload |-> WebSearchNullResult]
  ELSE [rejected |-> FALSE, payload |-> LastParsedBlock(agent.blocks)]

CallLookupViaWebSearch(wine, agent) ==
  /\ probe = NoProbe
  /\ probe' = [fn |-> "lookupViaWebSearch", wine |-> wine, agent |-> agent,
               out |-> LookupViaWebSearch(wine, agent)]
  /\ OnlyProbeChanges

NextWebSearch ==
  \E name \in {"petrus", NonString}, producer \in {"moueix", NonString},
     agent \in AgentOutcomes :
    CallLookupViaWebSearch([name |-> name, producer |-> producer], agent)

SpecWebSearch == Init /\ [][NextWebSearch]_vars

\* ---------------------------------------------------------------------
\* Edits of every identity field
\* ---------------------------------------------------------------------

\* An edit request that arrives while no run is waiting for a lookup.
EditBetweenRuns(i, body) ==
  /\ \A r \in DOMAIN runs : ~Active(runs[r])
  /\ Edit(i, body)

\* An upload with a parsed list of two wines, lookups the price API answers
\* with data, and edits between the runs whose bodies supply the name, the
\* vintage, the menu price, all three, the producer only (no field the wine
\* record of this module carries), or an empty name.
NextEdit ==
  \/ Upload(TRUE)
  \/ ParseDone([currency |-> "GBP",
                wines |-> <<NewWine("margaux", 2018, 60), NewWine("latour", 2015, 90)>>])
  \/ StartLookup
  \/ \E r \in DOMAIN runs, p \in 1..WAVE_SIZE, comm \in CommunityOutcomes :
        SourcesDone(r, p, Fulfilled(ApiResult("success", 30, 25, 90)), comm)
  \/ \E i \in EditIndices,
        body \in { [name |-> "petrus"], [vintage |-> 2019], [restaurantPrice |-> 45],
                   [name |-> "petrus", vintage |-> 2019, restaurantPrice |-> 45],
                   [producer |-> "moueix"], [name |-> ""] } :
       EditBetweenRuns(i, body)

SpecEdit == Init /\ [][NextEdit]_vars

\* ---------------------------------------------------------------------
\* The derived values on their own (markupPercent, valueScore)
\* ---------------------------------------------------------------------
\* The calculator works on doubles.  For the integer prices and scores of
\* this module the double a quotient is computed to differs from the exact
\* quotient by far less than the distance of two distinct quotients, so
\* Math.round gives the rounding of the exact quotient, except where the
\* exact quotient is a tie (n + 1/2): if an operation on the way rounded,
\* the double lies just below or just above the tie and Math.round gives n
\* or n + 1.

\* The odd part of the positive integer n.
RECURSIVE OddPart(_)
OddPart(n) == IF n % 2 = 0 THEN OddPart(n \div 2) ELSE n

\* num / den (den > 0) is a binary fraction: the division is exact in
\* doubles.
IsBinaryFraction(num, den) == num % OddPart(den) = 0

\* The rational q (q.den > 0) is n + 1/2 for an integer n.
IsTie(q) == (2 * q.num) % q.den = 0 /\ ((2 * q.num) \div q.den) % 2 = 1

\* What Math.round may give for the double computed for the exact value q;
\* exact says that no operation on the way rounded.
DoubleRounds(q, exact) ==
  IF IsTie(q) /\ ~exact THEN {MathRound(q) - 1, MathRound(q)} ELSE {MathRound(q)}

\* Math.round(calculateMarkup(restaurantPrice, retailPrice)): the division
\* (restaurantPrice - retailPrice) / retailPrice, then the product by 100.
MarkupPercents(restaurantPrice, retailPrice) ==
  DoubleRounds(CalculateMarkup(restaurantPrice, retailPrice),
               IsBinaryFraction(restaurantPrice - retailPrice, retailPrice))

\* The value score with the ratio inverted (retail price over menu price).
ValueScoresInverted(restaurantPrice, retailPriceAvg, criticScore, communityScore) ==
  IF ~Truthy(retailPriceAvg) THEN {Null}
  ELSE LET q10 == QualityScore10(criticScore, communityScore)
       IN  IF q10 = Null THEN {Null}
           ELSE {MathMin(100, MathMax(0,
                   MathRound([num |-> q10 * restaurantPrice,
                              den |-> 10 * retailPriceAvg])))}

\* calculateValueScore on doubles: 0.4 and 0.6 are no binary fractions, the
\* ratio restaurantPrice / retailPriceAvg is computed first.
ValueScores(restaurantPrice, retailPriceAvg, criticScore, communityScore) ==
  IF ~Truthy(retailPriceAvg) THEN {Null}
  ELSE LET q10 == QualityScore10(criticScore, communityScore)
           exact == /\ (criticScore = Null \/ communityScore = Null)
                    /\ IsBinaryFraction(restaurantPrice, retailPriceAvg)
       IN  IF q10 = Null THEN {Null}
           ELSE {MathMin(100, MathMax(0, v)) :
                   v \in DoubleRounds([num |-> q10 * retailPriceAvg,
                                       den |-> 10 * restaurantPrice], exact)}

\* The derived values of the merge loop for a wine that had none: the
\* markup when the retail price is truthy, and the value score.  probe holds
\* the last derivation and the one before ([made |-> FALSE] when none).
Derive(menu, retail, critic, community) ==
  /\ \E markup \in (IF Truthy(retail) THEN MarkupPercents(menu, retail) ELSE {Null}),
        score \in ValueScores(menu, retail, critic, community) :
       probe' = [fn |-> "derive",
                 prev |-> IF probe.fn = "derive" THEN probe.last ELSE [made |-> FALSE],
                 last |-> [made |-> TRUE, restaurantPrice |-> menu,
                           retailPriceAvg |-> retail, criticScore |-> critic,
                           communityScore |-> community, markupPercent |-> markup,
                           valueScore |-> score]]
  /\ OnlyProbeChanges

\* The menu prices, retail prices and scores the values are derived for.
NextCalc ==
  \E menu \in {63, 80, 450, 451}, retail \in {Null, 0, 40, 50, 300},
     critic \in {Null, 90, 96}, community \in {Null, 88, 92} :
    Derive(menu, retail, critic, community)

SpecCalc == Init /\ [][NextCalc]_vars

\* ---------------------------------------------------------------------
\* Name normalisation (normalizeWineName)
\* ---------------------------------------------------------------------
\* A name is a sequence of tokens, each standing for the characters it
\* spells: abbreviations ("ch", "st", "vyd"), the dot ".", the blank " ",
\* a vintage shorthand ("'18", "'50", "'85"), another word ("x"), and the words the
\* replacements write.  Neighbouring tokens spell one word when the first
\* ends and the second starts with a word character: every token but the
\* dot and the blank ends with one, every token but the dot, the blank and
\* the vintage shorthand starts with one.

\* Names have at most MaxNameLen tokens.
MaxNameLen == 3

\* ABBREVIATIONS, in the order of the source: the spellings of the
\* abbreviation, whether the dot must follow, may follow or is not part of
\* the pattern, whether blanks may (\s*) or must (\s+) follow, and the word
\* written (followed by one blank).
ABBREVIATIONS ==
  << [abbr |-> {"ch"}, dot |-> "required", blanks |-> "any", to |-> "Chateau"],
     [abbr |-> {"cht"}, dot |-> "required", blanks |-> "any", to |-> "Chateau"],
     [abbr |-> {"dom"}, dot |-> "required", blanks |-> "any", to |-> "Domaine"],
     [abbr |-> {"st"}, dot |-> "required", blanks |-> "any", to |-> "Saint"],
     [abbr |-> {"st"}, dot |-> "none", blanks |-> "some", to |-> "Saint"],
     [abbr |-> {"mt"}, dot |-> "required", blanks |-> "any", to |-> "Mount"],
     [abbr |-> {"cab"}, dot |-> "required", blanks |-> "any", to |-> "Cabernet"],
     [abbr |-> {"sauv"}, dot |-> "required", blanks |-> "any", to |-> "Sauvignon"],
     [abbr |-> {"chard"}, dot |-> "required", blanks |-> "any", to |-> "Chardonnay"],
     [abbr |-> {"ries"}, dot |-> "required", blanks |-> "any", to |-> "Riesling"],
     [abbr |-> {"pn", "pnt"}, dot |-> "required", blanks |-> "any", to |-> "Pinot"],
     [abbr |-> {"gr", "grn"}, dot |-> "required", blanks |-> "any", to |-> "Grand"],
     [abbr |-> {"vyd"}, dot |-> "optional", blanks |-> "any", to |-> "Vineyard"],
     [abbr |-> {"vly"}, dot |-> "optional", blanks |-> "any", to |-> "Valley"] >>

\* String.prototype.trim: the blanks at both ends removed.
Trim(name) ==
  LET inked == {i \in DOMAIN name : name[i] # " "}
  IN  IF inked = {} THEN <<>>
      ELSE SubSeq(name, CHOOSE i \in inked : \A j \in inked : i <= j,
                        CHOOSE i \in inked : \A j \in inked : j <= i)

\* The last position of the run of blanks that starts at position j
\* (j - 1 when there is no blank at j).
RECURSIVE BlanksEnd(_, _)
BlanksEnd(name, j) ==
  IF j <= Len(name) /\ name[j] = " " THEN BlanksEnd(name, j + 1) ELSE j - 1

\* The position after the abbreviation at i and its dot, when the pattern
\* takes one.
AfterDot(name, rule, i) ==
  IF rule.dot # "none" /\ i + 1 <= Len(name) /\ name[i + 1] = "."
    THEN i + 2 ELSE i + 1

\* The pattern of the rule matches at position i: the abbreviation at a
\* word boundary, then the dot and the blanks the pattern asks for.
MatchesAt(name, rule, i) ==
  /\ name[i] \in rule.abbr
  /\ (i = 1 \/ name[i - 1] \in {".", " "})
  /\ rule.dot = "required" => AfterDot(name, rule, i) = i + 2
  /\ rule.blanks = "some" => BlanksEnd(name, AfterDot(name, rule, i)) >= AfterDot(name, rule, i)

\* name.replace(pattern, replacement) with a global pattern: the matches
\* from left to right, from position i on.
RECURSIVE ReplaceFrom(_, _, _)
ReplaceFrom(name, rule, i) ==
  IF i > Len(name) THEN <<>>
  ELSE IF MatchesAt(name, rule, i)
    THEN <<rule.to, " ">>
           \o ReplaceFrom(name, rule, BlanksEnd(name, AfterDot(name, rule, i)) + 1)
  ELSE <<name[i]>> \o ReplaceFrom(name, rule, i + 1)

\* The loop over ABBREVIATIONS, from rule k on.
RECURSIVE ExpandAbbreviations(_, _)
ExpandAbbreviations(name, k) ==
  IF k > Len(ABBREVIATIONS) THEN name
  ELSE ExpandAbbreviations(ReplaceFrom(name, ABBREVIATIONS[k], 1), k + 1)

\* parseInt of the two digits of a vintage shorthand token.
ShorthandYear ==
  [tok \in {"'18", "'50", "'51", "'85"} |->
     CASE tok = "'18" -> 18 [] tok = "'50" -> 50 [] tok = "'51" -> 51 [] tok = "'85" -> 85]

\* The vintage shorthand with 50 counted to the last century.
ExpandVintageFrom50(name) ==
  [i \in DOMAIN name |->
     IF /\ name[i] \in DOMAIN ShorthandYear
        /\ (i = Len(name) \/ name[i + 1] \in {".", " "} \cup DOMAIN ShorthandYear)
       THEN LET num == ShorthandYear[name[i]]
            IN  ToString(IF num >= 50 THEN 1900 + num ELSE 2000 + num)
       ELSE name[i]]

\* The vintage shorthand: an apostrophe and two digits that no word
\* character follows become 19nn when nn > 50 and 20nn otherwise.
ExpandVintage(name) ==
  [i \in DOMAIN name |->
     IF /\ name[i] \in DOMAIN ShorthandYear
        /\ (i = Len(name) \/ name[i + 1] \in {".", " "} \cup DOMAIN ShorthandYear)
       THEN LET num == ShorthandYear[name[i]]
            IN  ToString(IF num > 50 THEN 1900 + num ELSE 2000 + num)
       ELSE name[i]]

\* name.replace(/\s+/g, ' '): every run of blanks becomes one blank.
RECURSIVE CollapseBlanks(_)
CollapseBlanks(name) ==
  IF Len(name) < 2 THEN name
  ELSE IF name[1] = " " /\ name[2] = " " THEN CollapseBlanks(Tail(name))
  ELSE <<name[1]>> \o CollapseBlanks(Tail(name))

\* normalizeWineName
NormalizeWineName(raw) ==
  Trim(CollapseBlanks(ExpandVintage(ExpandAbbreviations(Trim(raw), 1))))

\* A name is normalised, and the result is normalised again (as
\* isCloseMatch and buildSearchQuery do with a name that was normalised
\* before).
CallNormalizeWineName(raw) ==
  /\ probe = NoProbe
  /\ probe' = [fn |-> "normalizeWineName", raw |-> raw,
               once |-> NormalizeWineName(raw),
               twice |-> NormalizeWineName(NormalizeWineName(raw))]
  /\ OnlyProbeChanges

\* The names of at most MaxNameLen tokens are normalised.
NextNormalize ==
  \E n \in 0..MaxNameLen :
    \E raw \in [1..n -> {"ch", "st", "vyd", ".", " ", "'18", "'50", "'85", "x"}] :
      CallNormalizeWineName(raw)

SpecNormalize == Init /\ [][NextNormalize]_vars

\* ---------------------------------------------------------------------
\* The interval rate limiter (utils/rate-limiter.ts)
\* ---------------------------------------------------------------------

\* At most MaxCalls calls of waitForSlot are made, and the clock runs
\* MaxClock milliseconds beyond the construction of the limiter.
MaxCalls == 3

MaxClock == 5

\* new RateLimiter(opts): lastCall is 0, and the clock (Date.now) is more than
\* minIntervalMs beyond it.  timers are the pending setTimeout callbacks of
\* waitForSlot, each with the time it is due; returns are the times at
\* which calls of waitForSlot returned.
NewRateLimiter(minIntervalMs) ==
  /\ probe = NoProbe
  /\ probe' = [fn |-> "RateLimiter", minIntervalMs |-> minIntervalMs,
               lastCall |-> 0, start |-> minIntervalMs, now |-> minIntervalMs,
               timers |-> <<>>, calls |-> 0, returns |-> <<>>]
  /\ OnlyProbeChanges

\* A millisecond passes.
LimiterClock ==
  /\ probe.fn = "RateLimiter"
  /\ probe.now < probe.start + MaxClock
  /\ probe' = [probe EXCEPT !.now = @ + 1]
  /\ OnlyProbeChanges

\* waitForSlot() up to its await: a caller that finds the interval elapsed
\* writes lastCall and returns at once, any other caller sets a timer for
\* the remainder of the interval counted from the lastCall it has read.
WaitForSlot ==
  /\ probe.fn = "RateLimiter"
  /\ probe.calls < MaxCalls
  /\ LET elapsed == probe.now - probe.lastCall
     IN  probe' =
           IF elapsed < probe.minIntervalMs
             THEN [probe EXCEPT !.calls = @ + 1,
                                !.timers = Append(@, probe.now + (probe.minIntervalMs - elapsed))]
             ELSE [probe EXCEPT !.calls = @ + 1,
                                !.lastCall = probe.now,
                                !.returns = Append(@, probe.now)]
  /\ OnlyProbeChanges

\* The timer of a waiting caller fires, not before it is due and not before
\* a timer that is due earlier: the caller writes lastCall and returns.
TimerFires ==
  /\ probe.fn = "RateLimiter"
  /\ \E k \in DOMAIN probe.timers :
       /\ probe.timers[k] <= probe.now
       /\ \A j \in DOMAIN probe.timers :
            \/ probe.timers[j] > probe.timers[k]
            \/ (probe.timers[j] = probe.timers[k] /\ j >= k)
       /\ probe' = [probe EXCEPT
                      !.timers = SubSeq(@, 1, k - 1) \o SubSeq(@, k + 1, Len(@)),
                      !.lastCall = probe.now,
                      !.returns = Append(@, probe.now)]
  /\ OnlyProbeChanges

NextLimiter ==
  \/ \E minIntervalMs \in {2, 3} : NewRateLimiter(minIntervalMs)
  \/ LimiterClock
  \/ WaitForSlot
  \/ TimerFires

SpecLimiter == Init /\ [][NextLimiter]_vars

\* ---------------------------------------------------------------------
\* One call of the price API from gate to result (lookupViaWineSearcherApi)
\* ---------------------------------------------------------------------

\* The whole call for a wine with a string name: q is the state of the
\* gate, producer the producer handed in, net what the network does with
\* the one request.  Key and gate are checked first; buildApiWineName runs
\* before the try block and throws for a producer that is truthy and not a
\* string; a rejected fetch (network failure, or the abort after 5000 ms), a
\* status that is not ok and a body that is not JSON end in status error;
\* a JSON body goes to parseApiResponse.
FetchFromPriceApi(q, producer, net) ==
  LET started == LookupViaWineSearcherApi(q)
      failed == ApiResult("error", Null, Null, Null)
  IN  IF ~q.hasKey \/ started.sent = q.sent THEN started
      ELSE IF producer = NonString
        THEN [started EXCEPT !.sent = q.sent, !.rejected = TRUE]
      ELSE IF net.kind \in {"network failure", "timeout", "http error", "not json"}
        THEN [started EXCEPT !.result = failed]
      ELSE [started EXCEPT !.result = ParseApiResponse(net.body)]

\* lookupSingleWine calls the price API, with or without a key configured,
\* count calls having been made today.
CallPriceApi(hasKey, count, producer, net) ==
  /\ probe = NoProbe
  /\ probe' = FetchFromPriceApi(
                [fn |-> "fetchFromPriceApi", hasKey |-> hasKey,
                 dailyCallCount |-> count, dailyResetDate |-> 1, today |-> 1,
                 sent |-> 0, dropped |-> 0, result |-> Requested,
                 producer |-> producer, net |-> net, rejected |-> FALSE],
                producer, net)
  /\ OnlyProbeChanges

NextPriceApi ==
  \E hasKey \in BOOLEAN, count \in {0, DAILY_LIMIT - 1, DAILY_LIMIT},
     producer \in {"", "Latour", NonString},
     net \in {[kind |-> k, jsonType |-> t] :
                k \in {"network failure", "timeout", "http error", "not json"},
                t \in BOOLEAN}
             \cup {[kind |-> "json", jsonType |-> t, body |-> b] :
                     t \in BOOLEAN, b \in ResponseBodies} :
    CallPriceApi(hasKey, count, producer, net)

SpecPriceApi == Init /\ [][NextPriceApi]_vars

\* ---------------------------------------------------------------------
\* The continuation loop of the two agent lookups
\* ---------------------------------------------------------------------
\* One lookup is kept in probe: kind is "fallback" (lookupViaWebSearch) or
\* "community" (lookupCommunityScore), pc "awaiting" while a call of
\* client.messages.create is in flight and "returned" afterwards, attempts
\* the loop counter, calls the number of agent calls made, last the latest
\* response, out what the lookup has returned.

\* The bound of the while loop: attempts < 5 in the fallback, attempts < 3
\* in the community lookup.
MaxAttempts(kind) == IF kind = "fallback" THEN 5 ELSE 3

\* What the lookup returns for the object of a parsed block: the fallback
\* the object itself, the community lookup its two fields where they are
\* numbers.
ReturnedPayload(kind, obj) ==
  IF kind = "fallback" THEN obj
  ELSE CommunityResult(
         IF obj.communityScore.kind = "number" THEN obj.communityScore.value ELSE Null,
         IF obj.communityReviewCount.kind = "number"
           THEN obj.communityReviewCount.value ELSE Null)

\* The loop with one more continuation than its bound.
ContinueOrReturnOnceMore(a, response) ==
  IF response.throws
    THEN [a EXCEPT !.pc = "returned", !.last = response,
                   !.out = ReturnedPayload(a.kind, WebSearchNullResult)]
  ELSE IF response.paused /\ a.attempts <= MaxAttempts(a.kind)
    THEN [a EXCEPT !.attempts = @ + 1, !.calls = @ + 1, !.last = response]
  ELSE [a EXCEPT !.pc = "returned", !.last = response,
                 !.out = ReturnedPayload(a.kind, LastParsedBlock(response.blocks))]

\* The lookup from the point where a call of the agent has settled: a
\* thrown error is caught and the null result returned; a paused turn is
\* resubmitted while attempts is below the bound; any other response, and a
\* paused one once the bound is reached, has its text blocks parsed.
ContinueOrReturn(a, response) ==
  IF response.throws
    THEN [a EXCEPT !.pc = "returned", !.last = response,
                   !.out = ReturnedPayload(a.kind, WebSearchNullResult)]
  ELSE IF response.paused /\ a.attempts < MaxAttempts(a.kind)
    THEN [a EXCEPT !.attempts = @ + 1, !.calls = @ + 1, !.last = response]
  ELSE [a EXCEPT !.pc = "returned", !.last = response,
                 !.out = ReturnedPayload(a.kind, LastParsedBlock(response.blocks))]

\* The lookup is called and makes its first call of the agent.
StartAgentLookup(kind) ==
  /\ probe = NoProbe
  /\ probe' = [fn |-> "agentLookup", kind |-> kind, pc |-> "awaiting",
               attempts |-> 0, calls |-> 1,
               last |-> [throws |-> FALSE, paused |-> FALSE, blocks |-> <<>>],
               out |-> PendingLookup]
  /\ OnlyProbeChanges

\* The call of the agent in flight settles.
AgentResponds(response) ==
  /\ probe.fn = "agentLookup"
  /\ probe.pc = "awaiting"
  /\ \E a \in {ContinueOrReturn(probe, response)} : probe' = a
  /\ OnlyProbeChanges

\* The agent throws or answers, with a paused turn or a finished one, with
\* no text block, one or two; of two objects the blocks may hold, one has
\* every field as a number, the other a text as communityScore and no
\* other field.
AgentSettles ==
  LET full == JsonBlock(JsonObject(JsonNumber(30), JsonNumber(25), JsonNumber(90),
                                   JsonNumber(88), JsonNumber(12)))
      poor == JsonBlock(JsonObject(JsonAbsent, JsonAbsent, JsonAbsent, JsonText,
                                   JsonAbsent))
      noJson == [parses |-> FALSE]
  IN  \E throws \in BOOLEAN, paused \in BOOLEAN,
         texts \in {<<>>, <<noJson>>, <<full>>, <<full, noJson>>, <<poor, full>>,
                    <<full, poor>>, <<noJson, noJson>>} :
        AgentResponds([throws |-> throws, paused |-> paused, blocks |-> texts])

NextAgent ==
  \/ \E kind \in {"fallback", "community"} : StartAgentLookup(kind)
  \/ AgentSettles

SpecAgent == Init /\ [][NextAgent]_vars

\* Every call of client.messages.create settles: the SDK resolves it with
\* the response or rejects it on an error or its timeout.
SpecAgentLive == SpecAgent /\ WF_vars(AgentSettles)

\* ---------------------------------------------------------------------
\* The periodic sweep of the session store (utils/sessions.ts)
\* ---------------------------------------------------------------------

\* The interval callback finds the session created more than an hour ago
\* and deletes it from the store; nothing bounds the time between two steps
\* of the routes, so the hour may have passed in any state.  probe notes
\* that the session was swept.
Sweep ==
  /\ stored
  /\ stored' = FALSE
  /\ probe' = [fn |-> "sweep"]
  /\ resp' = NoResponse
  /\ written' = <<>>
  /\ UNCHANGED <<session, parse, runs, lookupCache, edits, starts>>

\* An upload, its parse, lookup runs and polls, with the sweep.
NextSweep ==
  \/ Upload(TRUE)
  \/ \E result \in ParseResults : ParseDone(result)
  \/ ParseFailed
  \/ StartLookup
  \/ \E r \in DOMAIN runs, p \in 1..WAVE_SIZE, api \in ApiOutcomes :
        SourcesDone(r, p, api, NoCommunity)
  \/ \E r \in DOMAIN runs, p \in 1..WAVE_SIZE :
        FallbackDone(r, p, FallbackResult(Null, Null, Null, Null, Null))
  \/ Poll
  \/ Sweep

SpecSweep == Init /\ [][NextSweep]_vars

\* ---------------------------------------------------------------------
\* Properties
\* ---------------------------------------------------------------------

\* The wines of the session.
Wines == session.wines

\* The last value assigned to session.status in the step, "" if none was.
LastWritten == IF written = <<>> THEN "" ELSE written[Len(written)]

\* The runs that have computed needsRetry.
PastPass1(run) == run.pass = 2 \/ run.pc = "complete"

\* C1: for every wine, valueScore is non-null if and only if retailPriceAvg
\* is non-null and at least one of criticScore and communityScore is
\* non-null, a price of 0 and a score of 0 included.
C1_ValueScoreIffPriceAndScore ==
  \A i \in DOMAIN Wines :
    (Wines[i].valueScore # Null)
      <=> (/\ Wines[i].retailPriceAvg # Null
           /\ (Wines[i].criticScore # Null \/ Wines[i].communityScore # Null))

\* The status the classification rule of the claim gives a wine.
ClaimedStatus(wine) ==
  IF wine.valueScore # Null THEN "found"
  ELSE IF wine.retailPriceAvg # Null \/ wine.criticScore # Null
            \/ wine.communityScore # Null
    THEN "partial"
    ELSE "not_found"

\* C2: a wine a result was merged into (it is no longer pending) has the
\* lookupStatus its fields determine: found with a valueScore, else partial
\* with any of retailPriceAvg, criticScore, communityScore non-null (0
\* included), else not_found.
C2_StatusDeterminedByFields ==
  \A i \in DOMAIN Wines :
    Wines[i].lookupStatus # "pending"
      => Wines[i].lookupStatus = ClaimedStatus(Wines[i])

\* C3: a lookup start request for a stored session whose status is
\* looking_up is answered 409 and changes neither the session, nor the
\* store, nor the runs, nor the cache.
C3_ConflictRejected ==
  [][(stored /\ session.status = "looking_up" /\ resp'.op = "lookup")
       => (/\ resp'.code = 409
           /\ UNCHANGED <<session, stored, runs, lookupCache>>)]_vars

\* A lookup start was refused while a run was waiting for its lookups.
C3_Witness ==
  /\ resp = Response("lookup", 409)
  /\ session.status = "looking_up"
  /\ \E r \in DOMAIN runs : runs[r].pc = "waiting"

\* C4: at most one lookup run of the session is active at any time, and
\* while one is active the status is looking_up.
C4_AtMostOneActiveRun ==
  /\ Cardinality({r \in DOMAIN runs : runs[r].pc = "waiting"}) <= 1
  /\ (\E r \in DOMAIN runs : runs[r].pc = "waiting")
       => session.status = "looking_up"

\* A second run is active after the first one has ended.
C4_Witness ==
  /\ starts = 2
  /\ Cardinality({r \in DOMAIN runs : runs[r].pc = "waiting"}) = 1

\* Every assignment to session.status of the step follows an edge of E.
FollowsEdges(E) ==
  LET path == <<session.status>> \o written'
  IN  \A k \in 1..(Len(path) - 1) :
        path[k] # path[k + 1] => <<path[k], path[k + 1]>> \in E

\* The edges of the claim.
ClaimedEdges ==
  { <<"parsing", "parsed">>, <<"parsed", "looking_up">>,
    <<"looking_up", "complete">>, <<"parsing", "error">>,
    <<"looking_up", "error">> }

\* The edges of the claim, the entries into looking_up from every other
\* status, and the edges a late parse result takes from complete.
ActualEdges ==
  ClaimedEdges
  \cup { <<"parsing", "looking_up">>, <<"complete", "looking_up">>,
         <<"error", "looking_up">>, <<"complete", "parsed">>,
         <<"complete", "error">> }

\* C5 as stated: the status changes only along parsing -> parsed,
\* parsed -> looking_up, looking_up -> complete, parsing -> error and
\* looking_up -> error.
C5_OnlyClaimedEdges == [][FollowsEdges(ClaimedEdges)]_vars

\* C5 amended: the status changes only along the edges of the claim, into
\* looking_up from parsing, complete and error as well, and from complete
\* to parsed or error when the parse ends after a lookup was started.
C5_OnlyActualEdges == [][FollowsEdges(ActualEdges)]_vars

\* The parse ended after a lookup run had completed: complete -> parsed.
C5_Witness == written = <<"parsed">> /\ starts = 1

\* C6: when a run has set the status to complete, no wine is pending.
C6_CompleteMeansNoPending ==
  (LastWritten = "complete" /\ resp = NoResponse)
    => \A i \in DOMAIN Wines : Wines[i].lookupStatus # "pending"

\* C7: in every state, no wine is found with a null retailPriceAvg.
C7_FoundHasPrice ==
  \A i \in DOMAIN Wines :
    Wines[i].lookupStatus = "found" => Wines[i].retailPriceAvg # Null

\* A wine is found while a run is waiting and after an edit was applied.
C7_Witness ==
  /\ edits > 0
  /\ \E r \in DOMAIN runs : runs[r].pc = "waiting"
  /\ \E i \in DOMAIN Wines : Wines[i].lookupStatus = "found"

\* C8: after pass 1 every wine without a valueScore is retried,
\* whatever its lookupStatus: its cache entry is deleted, it is looked up
\* afresh in one more pass, and no wine is attempted more than twice.
C8_EveryUnscoredWineRetried ==
  \A r \in DOMAIN runs :
    /\ \A i \in DOMAIN runs[r].attempts : runs[r].attempts[i] <= 2
    /\ PastPass1(runs[r])
         => /\ runs[r].retry = DOMAIN runs[r].attempts \ runs[r].scored
            /\ runs[r].pc = "complete"
                 => \A i \in runs[r].retry :
                      /\ runs[r].attempts[i] = runs[r].attempts1[i] + 1
                      /\ runs[r].calls[i] = runs[r].calls1[i] + 1

\* C9 as stated: a wine with a valueScore after pass 1 is not retried, no
\* source is called for it again and its cache entry is not deleted.
C9_ScoredWineUntouched ==
  \A r \in DOMAIN runs :
    PastPass1(runs[r])
      => /\ runs[r].scored \cap runs[r].retry = {}
         /\ \A i \in runs[r].scored :
              /\ runs[r].calls[i] = runs[r].calls1[i]
              /\ runs[r].attempts[i] = runs[r].attempts1[i]
         /\ runs[r].scoredKeys \cap runs[r].cleared = {}

\* The cache keys of the wines of the post-state that have no valueScore
\* and are not pending.
RetryKeysAfter ==
  {CacheKey(session'.wines[i], session'.currency) :
     i \in {j \in DOMAIN session'.wines :
              /\ session'.wines[j].valueScore = Null
              /\ session'.wines[j].lookupStatus # "pending"}}

\* C9 amended: a wine with a valueScore after pass 1 is not retried, no
\* source is called for it again, no step of the retry pass changes its
\* record, and a cache entry is deleted only under the key of a wine that
\* is retried (the entry of a scored wine goes only when a retried wine
\* has the same key).
C9_ScoredWineNotRetried ==
  /\ [](\A r \in DOMAIN runs :
          PastPass1(runs[r])
            => /\ runs[r].scored \cap runs[r].retry = {}
               /\ \A i \in runs[r].scored :
                    /\ runs[r].calls[i] = runs[r].calls1[i]
                    /\ runs[r].attempts[i] = runs[r].attempts1[i])
  /\ [][\A r \in DOMAIN runs :
          (runs[r].pass = 2 /\ runs[r].pc = "waiting" /\ resp' = NoResponse)
            => \A i \in runs[r].scored : session'.wines[i] = session.wines[i]]_vars
  /\ [][(DOMAIN lookupCache \ DOMAIN lookupCache') \subseteq RetryKeysAfter]_vars

\* A run has completed its retry pass with one wine scored in pass 1.
C9_Witness ==
  \E r \in DOMAIN runs :
    /\ runs[r].pc = "complete"
    /\ runs[r].pass = 2
    /\ runs[r].scored # {}
    /\ runs[r].retry # {}

\* The structured source did not deliver usable data.
ApiUnusable(api) ==
  \/ api.settled = "rejected"
  \/ api.value.status # "success"
  \/ (api.value.retailPriceAvg = Null /\ api.value.criticScore = Null)

\* C10: when the structured source returns another status than success, or
\* success with neither price nor critic score, the fallback is invoked
\* exactly once, the price fields and the critic score of the payload are
\* the fallback's, and its community fields are adopted exactly when the
\* community lookup produced no communityScore; on success with price or
\* critic data the fallback is not invoked.
C10_FallbackWhenApiUnusable ==
  probe.fn = "lookupSingleWine"
    => LET data == probe.out.data
           fb == probe.fb
           own == IF probe.comm.settled = "fulfilled"
                    THEN probe.comm.value
                    ELSE CommunityResult(Null, Null)
       IN  IF ApiUnusable(probe.api)
             THEN /\ probe.out.fallbackCalls = 1
                  /\ data.retailPriceAvg = fb.retailPriceAvg
                  /\ data.retailPriceMin = fb.retailPriceMin
                  /\ data.criticScore = fb.criticScore
                  /\ IF own.communityScore = Null
                       THEN /\ data.communityScore = fb.communityScore
                            /\ data.communityReviewCount = fb.communityReviewCount
                       ELSE /\ data.communityScore = own.communityScore
                            /\ data.communityReviewCount = own.communityReviewCount
             ELSE probe.out.fallbackCalls = 0

\* The structured source reported no_match and the fallback's price and
\* community score were adopted.
C10_Witness ==
  /\ probe.fn = "lookupSingleWine"
  /\ probe.api.value.status = "no_match"
  /\ probe.out.fallbackCalls = 1
  /\ probe.out.data.retailPriceAvg = 28
  /\ probe.out.data.communityScore = 80

\* C11: a failure of one channel does not remove what the other channel
\* obtained.  When the community lookup rejects or finds nothing, the
\* payload carries the price and critic data of the structured source, or
\* of the fallback when the structured source is unusable; whatever the
\* structured source does, the payload carries the community score and
\* review count the community lookup obtained.
C11_ChannelsIndependent ==
  probe.fn = "lookupSingleWine"
    => LET data == probe.out.data
           priceSource == IF ApiUnusable(probe.api) THEN probe.fb
                          ELSE probe.api.value
           communityFailed ==
             \/ probe.comm.settled = "rejected"
             \/ probe.comm.value.communityScore = Null
       IN  /\ communityFailed
                => /\ data.retailPriceAvg = priceSource.retailPriceAvg
                   /\ data.retailPriceMin = priceSource.retailPriceMin
                   /\ data.criticScore = priceSource.criticScore
           /\ ~communityFailed
                => /\ data.communityScore = probe.comm.value.communityScore
                   /\ data.communityReviewCount =
                        probe.comm.value.communityReviewCount

\* The structured lookup rejected, the fallback delivered a community score
\* of its own, and the payload carries the one of the community lookup.
C11_Witness ==
  /\ probe.fn = "lookupSingleWine"
  /\ probe.api.settled = "rejected"
  /\ probe.comm.settled = "fulfilled"
  /\ probe.comm.value.communityScore = 88
  /\ probe.fb.communityScore = 80
  /\ probe.out.data.communityScore = 88

\* C12: once every lookup of a batch has settled, lookupWinesBatch has
\* returned one payload per wine at the wine's index, for any mix of cached
\* and uncached wines: the cached payload for a cached wine, the payload of
\* its lookup for an uncached wine, and the all-null payload for a wine
\* whose lookup threw.
C12_OnePayloadPerWine ==
  probe.fn = "lookupWinesBatch"
    => /\ (\A i \in DOMAIN probe.cached :
             probe.cached[i].hit \/ probe.settled[i].settled)
            => probe.returned
       /\ probe.returned
            => /\ DOMAIN probe.results = DOMAIN probe.cached
               /\ \A i \in DOMAIN probe.cached :
                    probe.results[i] =
                      IF probe.cached[i].hit THEN probe.cached[i].data
                      ELSE IF probe.settled[i].threw
                        THEN Payload(Null, Null, Null, Null, Null, "undefined")
                        ELSE probe.settled[i].data

\* A batch of three wines has returned: the first was cached, the lookup of
\* the second threw, the lookup of the third returned a payload.
C12_Witness ==
  /\ probe.fn = "lookupWinesBatch"
  /\ probe.returned
  /\ Len(probe.cached) = 3
  /\ probe.cached[1].hit
  /\ ~probe.cached[2].hit /\ probe.settled[2].threw
  /\ ~probe.cached[3].hit /\ ~probe.settled[3].threw
  /\ probe.results[3] = probe.settled[3].data

\* A run fails in the step: the run a lookup start created, or a run that
\* was waiting, is in pc error afterwards.
RunFailsInStep ==
  \/ /\ resp' = Response("lookup", 200)
     /\ runs'[Len(runs')].pc = "error"
  \/ /\ resp' = NoResponse
     /\ \E r \in DOMAIN runs \cap DOMAIN runs' :
          runs[r].pc = "waiting" /\ runs'[r].pc = "error"

\* C13: when an exception escapes a wave of a lookup run, the session is
\* stored with status error and the exception message; the wines outside
\* the wave in progress, those merged by earlier waves included, keep their
\* records; the failed run never moves again (no later wave is started);
\* and the status stays error until a lookup is started anew.
C13_ExceptionEndsRun ==
  /\ [][RunFailsInStep
          => /\ session'.status = "error"
             /\ session'.error = "TypeError"
             /\ stored'
             /\ \A r \in DOMAIN runs :
                  runs[r].pc = "waiting"
                    => \A i \in DOMAIN session.wines :
                         i \notin Range(Wave(runs[r]))
                           => session'.wines[i] = session.wines[i]]_vars
  /\ [][\A r \in DOMAIN runs :
          (runs[r].pc = "error" /\ resp' # Response("lookup", 200))
            => (r \in DOMAIN runs' /\ runs'[r] = runs[r])]_vars
  /\ [][(session.status = "error" /\ resp' # Response("lookup", 200)
         /\ parse' = parse)
          => session'.status = "error"]_vars

\* The retry pass of a run has failed; a wine found in pass 1 is still
\* found.
C13_Witness ==
  /\ session.status = "error"
  /\ session.error = "TypeError"
  /\ \E r \in DOMAIN runs : runs[r].pc = "error" /\ runs[r].pass = 2
  /\ \E i \in DOMAIN Wines : Wines[i].lookupStatus = "found"

\* The positions of the run's wave whose lookup has not returned yet.
InFlight(run) ==
  {p \in DOMAIN run.lookups : run.lookups[p].st \in {"sources", "fallback"}}

\* The position of wine i in the list of a pass, 0 when it is not in it.
PositionIn(list, i) ==
  IF i \in Range(list) THEN CHOOSE k \in DOMAIN list : list[k] = i ELSE 0

\* The waves of the pass in progress that were started: the wave in
\* progress while the run waits, and those before it.
StartedUpTo(run) ==
  IF run.pc = "waiting" THEN (run.waveIdx + 1) * WAVE_SIZE
  ELSE run.waveIdx * WAVE_SIZE

\* C14: the waves of a pass run strictly one after the other and at most
\* WAVE_SIZE lookups are in flight: only the wave in progress has lookups,
\* every wine of an earlier wave of pass 1 has been merged and stored, no
\* wine of a later wave has been given to lookupWinesBatch, and at the end
\* of pass 1 every wine that was pending at the start has been in exactly
\* one wave and every other wine in none.
C14_WavesSequential ==
  /\ \A r \in DOMAIN runs : Cardinality(InFlight(runs[r])) <= WAVE_SIZE
  /\ \A r1, r2 \in DOMAIN runs :
       (InFlight(runs[r1]) # {} /\ InFlight(runs[r2]) # {}) => r1 = r2
  /\ \A r \in DOMAIN runs :
       LET run == runs[r]
       IN  /\ InFlight(run) # {} => Len(run.lookups) = Len(Wave(run))
           /\ run.pc = "waiting" =>
                \A i \in DOMAIN Wines :
                  LET k == PositionIn(run.list, i)
                      before == IF run.pass = 1 THEN 0 ELSE run.attempts1[i]
                  IN  /\ (k # 0 /\ k <= StartedUpTo(run))
                           => run.attempts[i] = before + 1
                      /\ (k = 0 \/ k > StartedUpTo(run))
                           => (run.attempts[i] = before
                               /\ run.calls[i] = (IF run.pass = 1 THEN 0
                                                  ELSE run.calls1[i]))
                      /\ (run.pass = 1 /\ k # 0 /\ k <= run.waveIdx * WAVE_SIZE)
                           => (~IsPending(Wines[i]) /\ stored)
                      /\ (run.pass = 1 /\ k > run.waveIdx * WAVE_SIZE)
                           => IsPending(Wines[i])
           /\ PastPass1(run) =>
                \A i \in DOMAIN run.attempts1 :
                  run.attempts1[i] = (IF i \in Range(run.first) THEN 1 ELSE 0)

\* The second wave of pass 1 is in flight after a first wave of five.
C14_Witness ==
  \E r \in DOMAIN runs :
    /\ runs[r].pc = "waiting" /\ runs[r].pass = 1 /\ runs[r].waveIdx = 1
    /\ Len(runs[r].first) = 7
    /\ InFlight(runs[r]) # {}
    /\ \A i \in 1..5 : runs[r].attempts[i] = 1 /\ ~IsPending(Wines[i])

\* C15: while pass 1 of a run is under way and no edit was made, the stored
\* session has status looking_up, every wine of the waves merged so far has
\* lookupStatus found, partial or not_found, and every wine of the wave in
\* progress and of the later waves is still pending; this is what a poll
\* returns.
C15_PollSeesProgress ==
  \A r \in DOMAIN runs :
    LET run == runs[r]
    IN  (run.pc = "waiting" /\ run.pass = 1) =>
          /\ stored
          /\ session.status = "looking_up"
          /\ \A k \in DOMAIN run.list :
               IF k <= run.waveIdx * WAVE_SIZE
                 THEN Wines[run.list[k]].lookupStatus
                        \in {"found", "partial", "not_found"}
                 ELSE Wines[run.list[k]].lookupStatus = "pending"

\* A poll answered while the second wave is in flight: five wines
\* classified, found and not_found among them, two pending.
C15_Witness ==
  /\ resp = Response("get", 200)
  /\ \E r \in DOMAIN runs :
       /\ runs[r].pc = "waiting" /\ runs[r].pass = 1 /\ runs[r].waveIdx = 1
       /\ Len(runs[r].list) = 7
  /\ \E i, j \in 1..5 :
       Wines[i].lookupStatus = "found" /\ Wines[j].lookupStatus = "not_found"
  /\ \A i \in 6..7 : Wines[i].lookupStatus = "pending"

\* C16: provided the external calls return, a session in status looking_up
\* reaches status complete or error.
C16_LookupTerminates ==
  (session.status = "looking_up") ~> (session.status \in {"complete", "error"})

\* A run has completed after two passes in which no lookup found anything.
C16_Witness ==
  /\ session.status = "complete"
  /\ Wines # <<>>
  /\ \A i \in DOMAIN Wines : Wines[i].lookupStatus = "not_found"
  /\ \E r \in DOMAIN runs :
       /\ runs[r].pc = "complete" /\ runs[r].pass = 2
       /\ \A i \in DOMAIN Wines : runs[r].calls[i] = 2

\* The step is a call of the price API made by a lookup.
PriceApiCalled ==
  /\ probe # NoProbe
  /\ probe.fn = "lookupViaWineSearcherApi"
  /\ probe'.today = probe.today
  /\ probe' # probe

\* C17: the requests sent to the price API on one local day never number
\* more than DAILY_LIMIT, whatever the order of the calls, and the first
\* call of a new local day counts from zero: after it the count is 1 and
\* the reset date is that day.
C17_DailyLimit ==
  /\ [](probe.fn = "lookupViaWineSearcherApi"
          => /\ probe.sent <= DAILY_LIMIT
             /\ probe.dailyCallCount <= DAILY_LIMIT
             /\ probe.dailyResetDate = probe.today
                  => probe.sent = probe.dailyCallCount)
  /\ [][(PriceApiCalled /\ probe.hasKey /\ probe.today # probe.dailyResetDate)
          => /\ probe'.dailyCallCount = 1
             /\ probe'.dailyResetDate = probe.today
             /\ probe'.sent = 1
             /\ probe'.result = Requested]_vars

\* The first request of the second day, after a first day on which the
\* limit was reached.
C17_Witness ==
  /\ probe.fn = "lookupViaWineSearcherApi"
  /\ probe.today = 2 /\ probe.dailyResetDate = 2
  /\ probe.dropped = DAILY_LIMIT
  /\ probe.dailyCallCount = 1 /\ probe.sent = 1

\* C18: a lookup made when the quota is exhausted gets status rate_limited
\* with every data field null in the same step, no request is sent, and
\* lookupSingleWine calls the fallback in the same lookup.
C18_RateLimitedFallsBack ==
  [][(PriceApiCalled /\ probe.hasKey /\ GetRemainingApiCalls(probe) = 0)
       => /\ probe'.result = ApiResult("rate_limited", Null, Null, Null)
          /\ probe'.sent = probe.sent
          /\ probe'.dailyCallCount = probe.dailyCallCount
          /\ probe'.lookup.fallbackCalls = 1
          /\ probe'.lookup.data.dataSource = "web_search"]_vars

\* A lookup refused by the gate, answered by the fallback.
C18_Witness ==
  /\ probe.fn = "lookupViaWineSearcherApi"
  /\ probe.sent = DAILY_LIMIT
  /\ probe.result = ApiResult("rate_limited", Null, Null, Null)
  /\ probe.lookup = [data |-> Payload(0, 0, Null, 88, 12, "web_search"),
                     fallbackCalls |-> 1]

\* What the contract of the cache lets a get of key at time now return,
\* given the latest set of that key: its payload while less than CACHE_TTL
\* has elapsed and no invalidate followed it, otherwise absent.
ContractGet(latest, key, now) ==
  IF key \in DOMAIN latest /\ ~latest[key].cleared
       /\ now - latest[key].ts < CACHE_TTL
    THEN Hit(latest[key].data)
    ELSE Miss

\* C19: a get returns the payload of the latest set of its key when less
\* than 24 hours have elapsed since that set and no invalidate followed it;
\* once 24 hours or more have elapsed it returns absent and the entry is
\* removed; after an invalidate the next get returns absent.  A set leaves
\* the payload under the key with the time of the set, an invalidate leaves
\* no entry under the key.
C19_CacheRoundTrip ==
  /\ [][(CacheCalled /\ probe'.op = "get")
          => /\ probe'.returned = ContractGet(probe.latest, probe'.key, probe.now)
             /\ probe'.returned = Miss => probe'.key \notin DOMAIN probe'.cache]_vars
  /\ [][(CacheCalled /\ probe'.op = "set")
          => /\ probe'.key \in DOMAIN probe'.cache
             /\ probe'.cache[probe'.key].ts = probe.now
             /\ probe'.cache[probe'.key].data = probe'.latest[probe'.key].data]_vars
  /\ [][(CacheCalled /\ probe'.op = "clear")
          => probe'.key \notin DOMAIN probe'.cache]_vars

\* A get exactly 24 hours after the set of its key has returned absent and
\* removed the entry.
C19_Witness ==
  /\ CacheCalled
  /\ probe.op = "get"
  /\ probe.returned = Miss
  /\ probe.key \in DOMAIN probe.latest
  /\ ~probe.latest[probe.key].cleared
  /\ probe.now - probe.latest[probe.key].ts = CACHE_TTL
  /\ probe.key \notin DOMAIN probe.cache

\* C20: after an edit request has changed a wine, the cache holds no entry
\* under the key of that wine.
C20_EditInvalidatesCache ==
  [][resp' = Response("put", 200)
       => \A i \in DOMAIN session.wines :
            (session'.wines[i] # session.wines[i]
             /\ ~CacheKeyThrows(session'.wines[i]))
              => CacheKey(session'.wines[i], session'.currency)
                   \notin DOMAIN lookupCache']_vars

\* The five fields a lookup result is merged into.
DataFields ==
  {"retailPriceAvg", "retailPriceMin", "criticScore", "communityScore",
   "communityReviewCount"}

\* C21: in every step that is not an edit or the end of the parse, a data
\* field of a wine that is not null keeps its value: the merge of a later
\* wave or of the retry pass only fills fields that are null.
C21_MergeFillsOnlyNulls ==
  [][(resp' # Response("put", 200) /\ parse' = parse)
       => \A i \in DOMAIN session.wines : \A f \in DataFields :
            session.wines[i][f] # Null
              => /\ i \in DOMAIN session'.wines
                 /\ session'.wines[i][f] = session.wines[i][f]]_vars

\* The retry pass has looked a wine up again and cached a retail price for
\* it, and the wine still has the other price it had before.
C21_Witness ==
  \E r \in DOMAIN runs : \E i \in DOMAIN Wines :
    /\ runs[r].pc = "complete" /\ runs[r].pass = 2
    /\ i \in runs[r].retry
    /\ runs[r].calls[i] = 2
    /\ ~CacheKeyThrows(Wines[i])
    /\ CacheKey(Wines[i], session.currency) \in DOMAIN lookupCache
    /\ lookupCache[CacheKey(Wines[i], session.currency)].retailPriceAvg = 30
    /\ Wines[i].retailPriceAvg = 0

\* C22: the tag of the payload the orchestrator returned (api, web_search
\* or mixed) is recorded on the wine the payload was merged into.
C22_TagRecordedOnWine ==
  \A i \in DOMAIN Wines :
    Wines[i].lookupStatus \in {"found", "partial"}
      => /\ "dataSource" \in DOMAIN Wines[i]
         /\ Wines[i].dataSource \in {"api", "web_search", "mixed"}

\* The body has no recognised status code and none of the recognised price
\* and score fields.
UnrecognisedShape(body) ==
  /\ body.status = Null
  /\ ~body.nested
  /\ body.own = WineObject(AbsentField, AbsentField, AbsentField)

\* C23: the parser reports success only with a retail price or a critic
\* score extracted, and reports a body of unrecognised shape as error.
C23_SuccessHasData ==
  probe.fn = "parseApiResponse"
    => /\ probe.out.status = "success"
            => (probe.out.retailPriceAvg # Null \/ probe.out.criticScore # Null)
       /\ UnrecognisedShape(probe.body) => probe.out.status = "error"

\* The five fields of the fallback's payload.
PayloadFields ==
  {"retailPriceAvg", "retailPriceMin", "criticScore", "communityScore",
   "communityReviewCount"}

\* C24: whatever the agent does, the web search fallback returns a payload
\* whose five fields are each a number or null, and all five are null when
\* the agent threw or wrote no JSON that parses.
C24_FallbackPayloadTyped ==
  (probe.fn = "lookupViaWebSearch" /\ probe.wine = [name |-> "petrus", producer |-> "moueix"])
    => /\ ~probe.out.rejected
       /\ \A f \in PayloadFields : probe.out.payload[f].kind \in {"number", "null"}
       /\ (probe.agent.throws \/ \A i \in DOMAIN probe.agent.blocks : ~probe.agent.blocks[i].parses)
            => \A f \in PayloadFields : probe.out.payload[f].kind = "null"

\* The fields an edit resets to null.
ResetFields ==
  DataFields \cup {"markupPercent", "valueScore"}

\* The wine is as an edit leaves it: data, links and computed fields null,
\* status pending.
IsReset(wine) ==
  /\ \A f \in ResetFields : wine[f] = Null
  /\ wine.wineSearcherUrl = NoUrl
  /\ wine.cellarTrackerUrl = NoUrl
  /\ wine.lookupStatus = "pending"

\* C25: an accepted edit of a wine resets its five data fields, both links,
\* markupPercent and valueScore to null and its status to pending, whichever
\* identity fields the body supplies, and leaves every other wine, the
\* session status and the currency as they were.
C25_EditResetsOnlyThatWine ==
  [][edits' = edits + 1
       => /\ DOMAIN session'.wines = DOMAIN session.wines
          /\ session'.status = session.status
          /\ session'.currency = session.currency
          /\ \E i \in DOMAIN session.wines :
               /\ IsReset(session'.wines[i])
               /\ \A j \in DOMAIN session.wines \ {i} :
                    session'.wines[j] = session.wines[j]]_vars

\* A finished lookup found both wines, and an edit has put the first one
\* back to pending while the second one keeps its result.
C25_Witness ==
  /\ resp = Response("put", 200)
  /\ session.status = "complete"
  /\ Len(Wines) = 2
  /\ IsReset(Wines[1])
  /\ Wines[2].lookupStatus = "found"
  /\ Wines[2].markupPercent # Null

\* C26: an edit request with an invalid payload is rejected and leaves the
\* session unchanged, so that no wine of a session ever has an empty name
\* (the parsed lists have none) and none reaches a lookup run.
C26_InvalidEditRejected ==
  \A i \in DOMAIN Wines : Wines[i].name # ""

\* The last derivation, when there is one.
Derived == probe.fn = "derive"

\* The exact value score of the spec's formula: the quality score times the
\* retail price over the menu price, rounded and clamped to 0..100.
ExactValueScore(d) ==
  MathMin(100, MathMax(0,
    MathRound([num |-> QualityScore10(d.criticScore, d.communityScore) * d.retailPriceAvg,
               den |-> 10 * d.restaurantPrice])))

\* C27: with a positive retail price and at least one score the value score
\* is the rounded, clamped quotient of the formula, an integer in 0..100;
\* menu price 450, retail 300, critic 96, community 92 give markup 50 and
\* value score 62.
C27_ValueScoreFormula ==
  (/\ Derived
   /\ probe.last.retailPriceAvg # Null
   /\ probe.last.retailPriceAvg > 0
   /\ (probe.last.criticScore # Null \/ probe.last.communityScore # Null))
    => /\ probe.last.valueScore = ExactValueScore(probe.last)
       /\ probe.last.valueScore \in 0..100
       /\ (/\ probe.last.restaurantPrice = 450
           /\ probe.last.retailPriceAvg = 300
           /\ probe.last.criticScore = 96
           /\ probe.last.communityScore = 92)
            => /\ probe.last.markupPercent = 50
               /\ probe.last.valueScore = 62

\* Ten times the quality score of a derivation.
Quality10(d) == QualityScore10(d.criticScore, d.communityScore)

\* Two derivations in a row that both gave a value score.
TwoScores ==
  /\ Derived
  /\ probe.prev.made
  /\ probe.prev.valueScore # Null
  /\ probe.last.valueScore # Null

\* The two derivations differ in the menu price only, the second being the
\* higher one.
MenuPriceRaised ==
  /\ TwoScores
  /\ probe.prev.retailPriceAvg = probe.last.retailPriceAvg
  /\ probe.prev.criticScore = probe.last.criticScore
  /\ probe.prev.communityScore = probe.last.communityScore
  /\ probe.prev.restaurantPrice < probe.last.restaurantPrice

\* The two derivations have the same prices, the second the higher quality.
QualityRaised ==
  /\ TwoScores
  /\ probe.prev.retailPriceAvg = probe.last.retailPriceAvg
  /\ probe.prev.restaurantPrice = probe.last.restaurantPrice
  /\ Quality10(probe.prev) < Quality10(probe.last)

\* C28 as stated: a higher menu price gives a strictly lower value score
\* unless the score is clamped at 0, and a higher quality a strictly higher
\* one unless it is clamped at 100.
C28_StrictlyMonotone ==
  /\ MenuPriceRaised
       => (probe.last.valueScore < probe.prev.valueScore \/ probe.last.valueScore = 0)
  /\ QualityRaised
       => (probe.last.valueScore > probe.prev.valueScore \/ probe.last.valueScore = 100)

\* C28: a higher menu price never gives a higher value score, and a higher
\* quality never a lower one.
C28_Monotone ==
  /\ MenuPriceRaised => probe.last.valueScore <= probe.prev.valueScore
  /\ QualityRaised => probe.last.valueScore >= probe.prev.valueScore

\* The menu price was raised and the score fell without reaching 0.
C28_Witness ==
  /\ MenuPriceRaised
  /\ probe.last.valueScore < probe.prev.valueScore
  /\ probe.last.valueScore > 0

\* The quality was raised and the score rose without reaching 100.
C28_WitnessQuality ==
  /\ QualityRaised
  /\ probe.last.valueScore > probe.prev.valueScore
  /\ probe.last.valueScore < 100

\* C29: a markup is recorded only with a positive retail price, and is the
\* rounded quotient 100 * (menu price - retail price) / retail price of the
\* wine's menu price and retail price.
C29_MarkupMatchesPrices ==
  (Derived /\ probe.last.markupPercent # Null)
    => /\ probe.last.retailPriceAvg # Null
       /\ probe.last.retailPriceAvg > 0
       /\ probe.last.markupPercent =
            MathRound([num |-> 100 * (probe.last.restaurantPrice - probe.last.retailPriceAvg),
                       den |-> probe.last.retailPriceAvg])

\* C30: normalising a normalised name changes nothing.
C30_NormalizeIdempotent ==
  probe.fn = "normalizeWineName" => probe.twice = probe.once

\* C31: the vintage shorthand has a 50-year pivot: '18 yields 2018, '85
\* yields 1985 and '50 yields 2050, at the end of a name and before a blank.
C31_VintagePivot ==
  probe.fn = "normalizeWineName"
    => \A i \in DOMAIN probe.raw :
         (/\ probe.raw[i] \in {"'18", "'50", "'85"}
          /\ \A j \in 1..(i - 1) : probe.raw[j] = "x"
          /\ \A j \in (i + 1)..Len(probe.raw) : probe.raw[j] = " ")
           => /\ Len(probe.once) = i
              /\ probe.once[i] = (CASE probe.raw[i] = "'18" -> "2018"
                                    [] probe.raw[i] = "'85" -> "1985"
                                    [] probe.raw[i] = "'50" -> "2050")

\* The name x'50 was normalised to x2050.
C31_Witness ==
  /\ probe.fn = "normalizeWineName"
  /\ probe.raw = <<"x", "'50">>
  /\ probe.once = <<"x", "2050">>

\* C32: any two returns of waitForSlot, those of concurrent callers
\* included, are at least minIntervalMs apart.
C32_ReturnsSpaced ==
  probe.fn = "RateLimiter"
    => \A i, j \in DOMAIN probe.returns :
         i < j => probe.returns[j] - probe.returns[i] >= probe.minIntervalMs

\* C33: while the status is looking_up, the lookup task is the only writer
\* of the wine records: no edit request modifies a wine.
C33_NoEditWhileLookingUp ==
  [][(session.status = "looking_up" /\ session'.wines # session.wines)
       => edits' = edits]_vars

\* The lookup in slot p of the run r is in flight, and the wine it was
\* issued for has a different name or vintage by now.
EditedInFlight(r, p) ==
  LET wine == session.wines[Wave(runs[r])[p]]
  IN  /\ Active(runs[r])
      /\ runs[r].lookups[p].st \in {"sources", "fallback"}
      /\ \/ CacheKeyThrows(wine)
         \/ ~CacheKeyThrows(wine)
              /\ CacheKey(wine, session.currency) # runs[r].lookups[p].key

\* C34: the result of a lookup is not written into a wine that was edited
\* while the lookup was in flight: the step that ends the lookup, and the
\* merge with it, leaves the edited wine as the edit has left it.
C34_ResultNotMergedIntoEditedWine ==
  [][\A r \in DOMAIN runs : \A p \in DOMAIN runs[r].lookups :
       (EditedInFlight(r, p) /\ edits' = edits /\ Len(session'.wines) = Len(session.wines))
         => session'.wines[Wave(runs[r])[p]] = session.wines[Wave(runs[r])[p]]]_vars

\* C35: every cache entry is stored under the key its payload was looked
\* up for: a key that enters the cache is the key some lookup in flight was
\* issued with.
C35_CacheKeyIsIssuedKey ==
  [][\A k \in DOMAIN lookupCache' \ DOMAIN lookupCache :
       \E r \in DOMAIN runs : \E p \in DOMAIN runs[r].lookups :
         /\ runs[r].lookups[p].st \in {"sources", "fallback"}
         /\ runs[r].lookups[p].key = k]_vars

\* C36: a call of the price API sends at most one request, no exception
\* escapes it, and a network failure, a timeout, an HTTP error status and a
\* body that is not JSON each give status error with every data field null.
C36_PriceCallFailsSafe ==
  probe.fn = "fetchFromPriceApi"
    => /\ probe.sent <= 1
       /\ ~probe.rejected
       /\ (probe.sent = 1 /\ probe.net.kind # "json")
            => probe.result = ApiResult("error", Null, Null, Null)

\* The lookup kept in probe has returned.
AgentLookupReturned == probe.fn = "agentLookup" /\ probe.pc = "returned"

\* C37: the fallback resubmits a paused turn at most 5 times and makes at
\* most 6 agent calls, the community lookup at most 3 times and 4 calls, and
\* every lookup that was started returns.
C37_LoopBoundedAndEnds ==
  /\ [](probe.fn = "agentLookup"
          => /\ probe.attempts <= (IF probe.kind = "fallback" THEN 5 ELSE 3)
             /\ probe.calls <= (IF probe.kind = "fallback" THEN 6 ELSE 4)
             /\ probe.calls = probe.attempts + 1)
  /\ (probe.fn = "agentLookup") ~> AgentLookupReturned

\* A fallback lookup has returned after six agent calls, each answered with
\* a paused turn.
C37_Witness ==
  /\ AgentLookupReturned
  /\ probe.kind = "fallback"
  /\ probe.calls = 6
  /\ probe.last.paused /\ ~probe.last.throws

\* C38: a lookup whose turn is still paused after the last permitted
\* continuation returns the all-null payload, whatever the text of that
\* last paused response.
C38_PausedAtLimitGivesNull ==
  (/\ AgentLookupReturned
   /\ ~probe.last.throws /\ probe.last.paused
   /\ probe.attempts = MaxAttempts(probe.kind))
    => probe.out = ReturnedPayload(probe.kind, WebSearchNullResult)

\* C39: the payload comes from the latest text block of the final response
\* that parses, from an earlier block only when every later one failed, and
\* is the all-null payload when no block parses.
C39_LatestParsedBlockWins ==
  (AgentLookupReturned /\ ~probe.last.throws)
    => LET texts == probe.last.blocks
       IN  \/ /\ \A i \in DOMAIN texts : ~texts[i].parses
              /\ probe.out = ReturnedPayload(probe.kind, WebSearchNullResult)
           \/ \E i \in DOMAIN texts :
                /\ texts[i].parses
                /\ \A j \in DOMAIN texts : j > i => ~texts[j].parses
                /\ probe.out = ReturnedPayload(probe.kind, texts[i].obj)

\* The fallback has returned the object of the first of two blocks, the
\* second holding no JSON.
C39_Witness ==
  /\ AgentLookupReturned
  /\ probe.kind = "fallback"
  /\ ~probe.last.throws
  /\ Len(probe.last.blocks) = 2
  /\ probe.last.blocks[1].parses /\ ~probe.last.blocks[2].parses
  /\ probe.out = probe.last.blocks[1].obj

\* C40: once the sweep has removed the session from the store, no later
\* operation puts it back, and every later read finds it absent.
C40_SweptStaysAbsent ==
  probe.fn = "sweep"
    => /\ ~stored
       /\ resp.op = "get" => resp.code = 404

====
